---- MODULE Spec2Model ----
(***************************************************************************)
(* A model of the rlisp tree-walking interpreter: the Expression data      *)
(* model, the scoped Context, Expression::eval / Expression::call, and the *)
(* intrinsic macros and functions that evaluation dispatches to.           *)
(*                                                                         *)
(* An evaluation is a pure function of (expression, context); it is        *)
(* modelled by mutually recursive operators that thread the context        *)
(* record c = [scopes, struct_count, out] exactly as the Rust code threads *)
(* `&mut Context` (out is the text written to stdout).  One action of the  *)
(* state machine is one top-level form evaluated by the front end.         *)
(***************************************************************************)
EXTENDS Integers, Sequences, FiniteSets, TLC

VARIABLES
    scopes,           \* Context.scopes: Vec<Scope>, innermost last
    struct_count,     \* Context.struct_count
    out,              \* what the last top-level evaluation wrote to stdout
    last,             \* the last top-level evaluation: form, scopes before, result
    panicked,         \* the host process has aborted (Rust panic)
    hist,             \* history: what x was when f was defined, the type id p was built with
    overflow_checks,  \* build flavour: TRUE = debug (arithmetic overflow panics)
    pm,               \* the last call of pattern_match: its arguments and its result
    qop,              \* the last quaternion operations: operands, sum and products
    ids,              \* the ids returned by the calls of Context::define_struct, in order
    exc               \* an error being unwound: the error, the receiver of the last
                      \* extend, the call sites passed so far, the printed trace

vars == <<scopes, struct_count, out, last, panicked, hist, overflow_checks, pm, qop,
          ids, exc>>

----------------------------------------------------------------------------
(* Bounds of the model *)

MaxScopes == 2        \* a top-level form is only started below this depth
MaxStructs == 2       \* define-struct is only started below this count
MaxDepth == 14        \* host recursion budget of one top-level evaluation
MaxNest == 1          \* (define (f) f) is only started below this capture nesting
MaxTrace == 3         \* an error is only extended below this trace length

(* usize::MAX, the value `0usize - 1` wraps to in a release build; TLC's   *)
(* integers are 32 bit, so the largest of them stands for it.              *)
UsizeMax == 2147483647

----------------------------------------------------------------------------
(* Expression: the closed tagged union *)

Bool(b) == [t |-> "bool", v |-> b]
Num(n) == [t |-> "num", v |-> n]
Str(s) == [t |-> "str", v |-> s]
Symbol(s) == [t |-> "sym", v |-> s]
Cons(l) == [t |-> "cons", v |-> l]
Quote == [t |-> "callable", k |-> "Quote"]
Quasiquote == [t |-> "callable", k |-> "Quasiquote"]
Unquote == [t |-> "callable", k |-> "Unquote"]
Lambda(params, body, capture) ==
    [t |-> "callable", k |-> "Lambda", params |-> params, body |-> body,
     capture |-> capture]
Intrinsic(f) == [t |-> "callable", k |-> "Intrinsic", f |-> f]
Macro(f) == [t |-> "callable", k |-> "Macro", f |-> f]
Error(ex) == [t |-> "error", ex |-> ex]
Quaternion(q) == [t |-> "quat", q |-> q]
Struct(name, data) == [t |-> "struct", name |-> name, data |-> data]

(* Not an Expression: the evaluation did not return, the host panicked. *)
Panic(why) == [t |-> "panic", why |-> why]

nil == Cons(<< >>)

wrap_begin(exprs) == Cons(<<Symbol("begin")>> \o exprs)

is_exception(e) == e.t = "error"
(* a test that takes every value for a callable *)
IsCallableAlways(e) == TRUE

is_callable(e) == e.t = "callable"
IsPanic(e) == e.t = "panic"

(* the type name of the Quaternion variant *)
QuatTypeName == "quaternion"

type_of(e) ==
    CASE e.t = "num" -> "num"
      [] e.t = "quat" -> QuatTypeName
      [] e.t = "bool" -> "bool"
      [] e.t = "str" -> "string"
      [] e.t = "cons" -> "cons"
      [] e.t = "error" -> "error"
      [] e.t = "sym" -> "symbol"
      [] e.t = "callable" -> "procedure"
      [] e.t = "struct" -> e.name

is_valid_identifier(s) == s \notin {"define", "cond", "lambda", "if", "let"}

----------------------------------------------------------------------------
(* Exception: payload plus call-stack trace *)

arity(expected, found) ==
    [stack |-> << >>, data |-> [k |-> "Arity", expected |-> expected, found |-> found]]
signature(expected, found) ==
    [stack |-> << >>, data |-> [k |-> "Signature", expected |-> expected, found |-> found]]
custom(code, description) ==
    [stack |-> << >>, data |-> [k |-> "Custom", code |-> code, desc |-> description]]
undefined(symbol) ==
    [stack |-> << >>, data |-> [k |-> "Undefined", symbol |-> symbol]]
syntax(code, description) ==
    [stack |-> << >>, data |-> [k |-> "Syntax", code |-> code, desc |-> description]]

error_code(ex) ==
    CASE ex.data.k = "Arity" -> 4
      [] ex.data.k = "Signature" -> 9
      [] ex.data.k = "Custom" -> ex.data.code
      [] ex.data.k = "Undefined" -> 1
      [] ex.data.k = "Syntax" -> ex.data.code

(* an extend that pushes the call site onto the back of the trace *)
ExtendBack(ex, expr) == [stack |-> Append(ex.stack, expr), data |-> ex.data]

(* Exception::extend: ConsList::cons puts expr in front of the stack *)
extend(ex, expr) == [stack |-> <<expr>> \o ex.stack, data |-> ex.data]

(* print_stack_trace: the items of the stack in the order of their " at [i]" *)
(* lines, which is the stack reversed                                       *)
print_stack_trace(ex) ==
    [i \in 1..Len(ex.stack) |-> ex.stack[Len(ex.stack) - i + 1]]

(* The backquote character, which a string of this module cannot contain. *)
Backtick == "^"

(* impl Display for ExceptionData *)
ExceptionToString(ex) ==
    CASE ex.data.k = "Arity" ->
            "arity mismatch: expected " \o ToString(ex.data.expected)
                \o ", found " \o ToString(ex.data.found)
      [] ex.data.k = "Signature" ->
            "signature mismatch: expected " \o ex.data.expected
                \o ", found " \o ex.data.found
      [] ex.data.k = "Custom" -> ex.data.desc
      [] ex.data.k = "Undefined" -> "undefined symbol: " \o Backtick \o ex.data.symbol \o Backtick
      [] ex.data.k = "Syntax" -> "syntax error: " \o ex.data.desc

(* the {:03} of the error display *)
Pad3(n) ==
    IF n < 10 THEN "00" \o ToString(n)
    ELSE IF n < 100 THEN "0" \o ToString(n) ELSE ToString(n)

RECURSIVE Display(_)
RECURSIVE DisplayJoin(_, _)

(* the strs.join(" ") of the list display, and the " {}" of struct fields *)
DisplayJoin(l, first) ==
    IF l = << >> THEN ""
    ELSE (IF first THEN "" ELSE " ") \o Display(Head(l)) \o DisplayJoin(Tail(l), FALSE)

(* impl fmt::Display for Expression *)
Display(e) ==
    CASE e.t = "bool" -> IF e.v THEN "true" ELSE "false"
      [] e.t = "num" -> ToString(e.v)
      [] e.t = "str" -> "\"" \o e.v \o "\""
      [] e.t = "sym" -> e.v
      [] e.t = "cons" ->
            IF Len(e.v) = 2 /\ e.v[1] = Quote THEN "'" \o Display(e.v[2])
            ELSE IF Len(e.v) = 2 /\ e.v[1] = Quasiquote THEN Backtick \o Display(e.v[2])
            ELSE IF Len(e.v) = 2 /\ e.v[1] = Unquote THEN "," \o Display(e.v[2])
            ELSE "(" \o DisplayJoin(e.v, TRUE) \o ")"
      [] e.t = "callable" ->
            IF e.k = "Quote" THEN "quote"
            ELSE IF e.k = "Quasiquote" THEN "quasiquote"
            ELSE IF e.k = "Unquote" THEN "unquote"
            ELSE "<procedure>"
      [] e.t = "error" ->
            "error[" \o Pad3(error_code(e.ex)) \o "]: " \o ExceptionToString(e.ex)
      [] e.t = "struct" ->
            "(make-" \o e.name
                \o (IF e.data = << >> THEN "" ELSE " " \o DisplayJoin(e.data, TRUE))
                \o ")"

(* the match { Str(s) => s.to_string(), other => other.to_string() } of display/format *)
FmtArg(e) == IF e.t = "str" THEN e.v ELSE Display(e)

----------------------------------------------------------------------------
(* Context: the stack of scopes *)

None == [some |-> FALSE]
Some(v) == [some |-> TRUE, v |-> v]

EmptyMap == << >>
MapInsert(m, key, value) ==
    [x \in (DOMAIN m) \cup {key} |-> IF x = key THEN value ELSE m[x]]
MapMerge(m, over) ==
    [x \in (DOMAIN m) \cup (DOMAIN over) |-> IF x \in DOMAIN over THEN over[x] ELSE m[x]]

ScopeDefault == [bindings |-> EmptyMap, structs |-> EmptyMap]

RECURSIVE FindBinding(_, _, _)
FindBinding(ss, i, key) ==
    IF i = 0 THEN None
    ELSE IF key \in DOMAIN ss[i].bindings THEN Some(ss[i].bindings[key])
    ELSE FindBinding(ss, i - 1, key)

(* Context::get: innermost scope first, first match wins *)
Get(c, key) == FindBinding(c.scopes, Len(c.scopes), key)

(* an insert that writes the outermost scope *)
InsertOutermost(c, ident, value) ==
    IF c.scopes = << >> THEN c
    ELSE [c EXCEPT !.scopes[1].bindings = MapInsert(@, ident, value)]

(* Context::insert: writes the innermost scope; nothing when there is none *)
Insert(c, ident, value) ==
    IF c.scopes = << >> THEN c
    ELSE [c EXCEPT !.scopes[Len(c.scopes)].bindings = MapInsert(@, ident, value)]

RECURSIVE FindSetTarget(_, _, _)
FindSetTarget(ss, i, key) ==
    IF i = 0 THEN 0
    ELSE IF key \in DOMAIN ss[i].bindings THEN i
    ELSE FindSetTarget(ss, i - 1, key)

(* Context::get_mut followed by the assignment through the reference *)
SetMut(c, key, value) ==
    LET i == FindSetTarget(c.scopes, Len(c.scopes), key)
    IN  [c EXCEPT !.scopes[i].bindings[key] = value]

(* a define_struct that numbers the types of each scope from one *)
DefineStructPerScope(c, name) ==
    IF c.scopes = << >> THEN [id |-> None, c |-> c]
    ELSE LET id == Cardinality(DOMAIN c.scopes[Len(c.scopes)].structs) + 1
         IN  [id |-> Some(id),
              c |-> [c EXCEPT !.struct_count = @ + 1,
                              !.scopes[Len(c.scopes)].structs = MapInsert(@, name, id)]]

(* Context::define_struct *)
DefineStruct(c, name) ==
    IF c.scopes = << >> THEN [id |-> None, c |-> c]
    ELSE LET id == c.struct_count + 1
         IN  [id |-> Some(id),
              c |-> [c EXCEPT !.struct_count = id,
                              !.scopes[Len(c.scopes)].structs = MapInsert(@, name, id)]]

RECURSIVE FindStruct(_, _, _)
FindStruct(ss, i, name) ==
    IF i = 0 THEN None
    ELSE IF name \in DOMAIN ss[i].structs THEN Some(ss[i].structs[name])
    ELSE FindStruct(ss, i - 1, name)

(* Context::get_struct_id *)
GetStructId(c, name) == FindStruct(c.scopes, Len(c.scopes), name)

(* Context::ascend_scope *)
AscendScope(c) == [c EXCEPT !.scopes = Append(@, ScopeDefault)]

(* a descend_scope that pops two scopes *)
DescendScopeTwice(c) ==
    IF Len(c.scopes) <= 2 THEN [c EXCEPT !.scopes = << >>]
    ELSE [c EXCEPT !.scopes = SubSeq(@, 1, Len(@) - 2)]

(* Context::descend_scope: Vec::pop, which does nothing on an empty Vec *)
DescendScope(c) ==
    IF c.scopes = << >> THEN c
    ELSE [c EXCEPT !.scopes = SubSeq(@, 1, Len(@) - 1)]

(* print! to stdout *)
Print_(c, s) == [c EXCEPT !.out = Append(@, s)]

(* the pair an evaluation returns: its value and the context it left *)
R(res, c) == [res |-> res, c |-> c]

(* usize subtraction n - 1: panics on underflow when overflow checks are   *)
(* compiled in, wraps otherwise                                            *)
UsizeDec(n) ==
    IF n > 0 THEN Some(n - 1)
    ELSE IF overflow_checks THEN None ELSE Some(UsizeMax)

OverflowPanic == Panic("attempt to subtract with overflow")

----------------------------------------------------------------------------
(* impl PartialEq for Expression *)

RECURSIVE ExprEq(_, _)
RECURSIVE SeqEq(_, _)

SeqEq(a, b) ==
    IF Len(a) # Len(b) THEN FALSE
    ELSE IF a = << >> THEN TRUE
    ELSE ExprEq(Head(a), Head(b)) /\ SeqEq(Tail(a), Tail(b))

ExprEq(a, b) ==
    IF a.t # b.t THEN FALSE
    ELSE CASE a.t \in {"num", "str", "bool", "sym"} -> a.v = b.v
           [] a.t = "callable" ->
                 IF a.k = "Lambda" /\ b.k = "Lambda"
                 THEN a.params = b.params /\ ExprEq(a.body, b.body)
                        /\ DOMAIN a.capture = DOMAIN b.capture
                        /\ \A x \in DOMAIN a.capture : ExprEq(a.capture[x], b.capture[x])
                 ELSE FALSE
           [] a.t = "cons" -> SeqEq(a.v, b.v)
           [] a.t = "struct" -> a.name = b.name /\ SeqEq(a.data, b.data)
           [] OTHER -> FALSE

----------------------------------------------------------------------------
(* Lambda creation: free-variable capture *)

RECURSIVE extract_symbols_to_capture(_, _, _)
RECURSIVE ExtractChildren(_, _, _)

ExtractChildren(children, capture, c) ==
    IF children = << >> THEN capture
    ELSE ExtractChildren(Tail(children),
                         extract_symbols_to_capture(Head(children), capture, c), c)

extract_symbols_to_capture(e, capture, c) ==
    CASE e.t = "sym" ->
            LET value == Get(c, e.v)
            IN  IF value.some THEN MapInsert(capture, e.v, value.v) ELSE capture
      [] e.t = "cons" -> ExtractChildren(e.v, capture, c)
      [] OTHER -> capture

extract_symbols(e, c) == extract_symbols_to_capture(e, EmptyMap, c)

(* a create_lambda that stores an empty capture *)
CaptureNothing(body, c) == EmptyMap

(* the capture create_lambda stores: the body's bound symbols plus __FILE__ *)
CaptureOf(body, c) ==
    LET capture == extract_symbols(body, c)
        file == Get(c, "__FILE__")
    IN  IF file.some THEN MapInsert(capture, "__FILE__", file.v) ELSE capture

AllSymbols(l) == \A i \in 1..Len(l) : l[i].t = "sym"
SymbolNames(l) == [i \in 1..Len(l) |-> l[i].v]

create_lambda(params, body, c) ==
    IF AllSymbols(params)
    THEN LET b == IF Len(body) = 1 THEN Head(body) ELSE wrap_begin(body)
         IN  Lambda(SymbolNames(params), b, CaptureOf(b, c))
    ELSE Error(syntax(17, "(lambda [args...] body)"))

----------------------------------------------------------------------------
(* String interpolation helpers of `format` *)

Literal(s) == [k |-> "Literal", s |-> s]
Expr(s) == [k |-> "Expr", s |-> s]

(* s[a..b] of a Rust string slice, a and b 0-based *)
Slice(s, a, b) == SubSeq(s, a + 1, b)

RECURSIVE SplitLoop(_, _, _)
(* the `for ch in s.chars()` loop of split_str; st is its local state *)
SplitLoop(s, i, st) ==
    IF i = Len(s) THEN st
    ELSE LET ch == Slice(s, i, i + 1)
             st1 == IF ch = "{" /\ st.last_ch = "#"
                    THEN [st EXCEPT !.strs = Append(@, Literal(Slice(s, st.last, i - 1))),
                                    !.in_expr = TRUE, !.last = i + 1]
                    ELSE IF ch = "{" /\ st.in_expr
                    THEN [st EXCEPT !.layers = @ + 1]
                    ELSE IF ch = "}" /\ st.in_expr
                    THEN IF st.layers = 0
                         THEN [st EXCEPT !.strs = Append(@, Expr(Slice(s, st.last, i))),
                                         !.in_expr = FALSE, !.last = i + 1]
                         ELSE [st EXCEPT !.layers = @ - 1]
                    ELSE st
         IN  SplitLoop(s, i + 1, [st1 EXCEPT !.last_ch = ch])

split_str(s) ==
    LET st == SplitLoop(s, 0, [strs |-> << >>, in_expr |-> FALSE, last |-> 0,
                               layers |-> 0, last_ch |-> ""])
        strs == IF st.last # Len(s) THEN Append(st.strs, Literal(Slice(s, st.last, Len(s))))
                ELSE st.strs
    IN  IF st.in_expr
        THEN [ok |-> FALSE, ex |-> syntax(32, "unclosed expression while interpolating string")]
        ELSE [ok |-> TRUE, strs |-> strs]

(* Parser::parse_expr on the source texts that the modelled programs       *)
(* interpolate: the text parser is an external producer of expression      *)
(* trees, so its result is tabulated per text.                             *)
parse_expr(s) ==
    CASE s = "x" -> Some(Symbol("x"))
      [] s = "y" -> Some(Symbol("y"))
      [] s = "undef" -> Some(Symbol("undef"))
      [] s = "1" -> Some(Num(1))
      [] s = "(define y 3)" -> Some(Cons(<<Symbol("define"), Symbol("y"), Num(3)>>))
      [] OTHER -> None

----------------------------------------------------------------------------
(* The evaluator.  d is what is left of the host stack: every nested eval  *)
(* takes one unit, and an evaluation that exhausts it aborts the process.  *)

RECURSIVE Eval(_, _, _)
RECURSIVE Call(_, _, _, _)
RECURSIVE EvalArgs(_, _, _)
RECURSIVE CallMacro(_, _, _, _)
RECURSIVE CallIntrinsic(_, _, _, _)
RECURSIVE cond_loop(_, _, _)
RECURSIVE let_bindings(_, _, _)
RECURSIVE begin_loop(_, _, _, _)
RECURSIVE make_args(_, _, _, _)
RECURSIVE format_loop(_, _, _, _)
RECURSIVE repeat_loop(_, _, _, _)
RECURSIVE eval_quasiquote(_, _, _)
RECURSIVE quasi_children(_, _, _)

(* an argument loop that never stops at an Error *)
StopsCollectNever(res) == FALSE

(* the match arm that turns an argument's value into Err and stops collect() *)
StopsCollect(res) == is_exception(res)

(* the arguments of an Intrinsic or Lambda call, evaluated left to right;  *)
(* collect() into a Result stops at the first Err                          *)
EvalArgs(xs, c, d) ==
    IF xs = << >> THEN [err |-> FALSE, vals |-> << >>, res |-> nil, c |-> c]
    ELSE LET h == Eval(Head(xs), c, d)
         IN  IF IsPanic(h.res) \/ StopsCollect(h.res)
             THEN [err |-> TRUE, vals |-> << >>, res |-> h.res, c |-> h.c]
             ELSE LET r == EvalArgs(Tail(xs), h.c, d)
                  IN  IF r.err THEN r ELSE [r EXCEPT !.vals = <<h.res>> \o @]

(* an arity test that only rejects too few arguments *)
ArityAtMost(expected, found) == expected <= found

(* the arity test of eval_lambda *)
ArityMatches(expected, found) == expected = found

RECURSIVE BindParams(_, _, _)
(* `for (param, arg) in params.iter().zip(args.iter())` *)
BindParams(c, params, args) ==
    IF params = << >> \/ args = << >> THEN c
    ELSE BindParams(Insert(c, Head(params), Head(args)), Tail(params), Tail(args))

(* `for (key, value) in capture.iter()`: every key is inserted once *)
ApplyCapture(c, capture) ==
    IF c.scopes = << >> THEN c
    ELSE [c EXCEPT !.scopes[Len(c.scopes)].bindings = MapMerge(@, capture)]

eval_lambda(params, body, args, c, capture, d) ==
    IF ArityMatches(Len(params), Len(args))
    THEN LET c1 == BindParams(ApplyCapture(AscendScope(c), capture), params, args)
             res == Eval(body, c1, d)
         IN  IF IsPanic(res.res) THEN res ELSE R(res.res, DescendScope(res.c))
    ELSE R(Error(arity(Len(params), Len(args))), Print_(c, "<procedure>\n"))

(* the children of a quasiquoted list, each evaluated by eval_quasiquote *)
quasi_children(l, c, d) ==
    IF l = << >> THEN [vals |-> << >>, c |-> c, panic |-> None]
    ELSE LET h == eval_quasiquote(Head(l), c, d)
         IN  IF IsPanic(h.res) THEN [vals |-> << >>, c |-> h.c, panic |-> Some(h.res)]
             ELSE LET r == quasi_children(Tail(l), h.c, d)
                  IN  [r EXCEPT !.vals = <<h.res>> \o @]

(* a quasiquote that unquotes every list headed by Unquote, of any length *)
EvalQuasiquoteAnyLen(e, c, d) ==
    IF e.t = "cons"
    THEN IF Len(e.v) >= 2 /\ e.v[1] = Unquote
         THEN Eval(e.v[2], c, d)
         ELSE LET r == quasi_children(e.v, c, d)
              IN  IF r.panic.some THEN R(r.panic.v, r.c) ELSE R(Cons(r.vals), r.c)
    ELSE R(e, c)

(* Expression::eval_quasiquote *)
eval_quasiquote(e, c, d) ==
    IF e.t = "cons"
    THEN IF Len(e.v) = 2 /\ e.v[1] = Unquote
         THEN Eval(e.v[2], c, d)
         ELSE LET r == quasi_children(e.v, c, d)
              IN  IF r.panic.some THEN R(r.panic.v, r.c) ELSE R(Cons(r.vals), r.c)
    ELSE R(e, c)

(* Expression::call *)
Call(f, list, c, d) ==
    CASE f.t = "error" -> R(f, c)
      [] f.t = "callable" /\ f.k \in {"Quote", "Quasiquote"} ->
            LET n == UsizeDec(Len(list))
            IN  IF ~n.some THEN R(OverflowPanic, c)
                ELSE IF n.v # 1 THEN R(Error(arity(1, n.v)), c)
                ELSE IF f.k = "Quote" THEN R(list[2], c)
                ELSE eval_quasiquote(list[2], c, d)
      [] f.t = "callable" /\ f.k = "Unquote" ->
            R(Error(syntax(33, "unquote expression must be contained in a quasiquote")), c)
      [] f.t = "callable" /\ f.k = "Macro" -> CallMacro(f, list, c, d)
      [] f.t = "callable" /\ f.k = "Intrinsic" ->
            LET args == EvalArgs(IF list = << >> THEN << >> ELSE Tail(list), c, d)
            IN  IF args.err THEN R(args.res, args.c)
                ELSE CallIntrinsic(f, args.vals, args.c, d)
      [] f.t = "callable" /\ f.k = "Lambda" ->
            LET args == EvalArgs(IF list = << >> THEN << >> ELSE Tail(list), c, d)
            IN  IF args.err THEN R(args.res, args.c)
                ELSE eval_lambda(f.params, f.body, args.vals, args.c, f.capture, d)
      [] OTHER ->
            R(Error(custom(3, "not a callable value: " \o Backtick \o Display(f) \o Backtick)), c)

(* Expression::eval *)
Eval(e, c, d) ==
    IF d = 0 THEN R(Panic("stack overflow"), c)
    ELSE CASE e.t = "sym" ->
                 LET value == Get(c, e.v)
                 IN  IF value.some THEN R(value.v, c) ELSE R(Error(undefined(e.v)), c)
           [] e.t = "cons" ->
                 IF e.v # << >>
                 THEN LET func == Eval(Head(e.v), c, d - 1)
                      IN  IF IsPanic(func.res) THEN func
                          ELSE Call(func.res, e.v, func.c, d - 1)
                 ELSE R(Error(custom(3, "[] has no function to call")), c)
           [] OTHER -> R(e, c)

----------------------------------------------------------------------------
(* Intrinsic macros: each receives the whole unevaluated call list *)

Err(ex, c) == R(Error(ex), c)

(* (lambda [<param1> ...] <body1> ...) *)
lambda(list, c, d) ==
    IF Len(list) >= 2
    THEN IF list[2].t = "cons"
         THEN R(create_lambda(list[2].v, SubSeq(list, 3, Len(list)), c), c)
         ELSE Err(syntax(17, "(lambda [args...] body)"), c)
    ELSE Err(syntax(17, "(lambda [args...] body)"), c)

(* (define <ident> <value>) | (define (<ident> <param1> ...) <expr1> ...) *)
define(list, c, d) ==
    IF Len(list) < 2
    THEN LET n == UsizeDec(Len(list))
         IN  IF n.some THEN Err(arity(2, n.v), c) ELSE R(OverflowPanic, c)
    ELSE LET head == list[2]
         IN  CASE head.t = "sym" ->
                     IF Len(list) = 3
                     THEN IF is_valid_identifier(head.v)
                          THEN LET value == Eval(list[3], c, d)
                               IN  IF IsPanic(value.res) \/ is_exception(value.res)
                                   THEN value
                                   ELSE R(nil, Insert(value.c, head.v, value.res))
                          ELSE Err(custom(28, "reserved identifier: " \o head.v), c)
                     ELSE Err(arity(3, Len(list)), c)
                [] head.t = "cons" ->
                     LET func == head.v
                     IN  IF func = << >> THEN Err(arity(2, 0), c)
                         ELSE IF func[1].t # "sym"
                         THEN Err(signature("symbol", type_of(func[1])), c)
                         ELSE IF ~is_valid_identifier(func[1].v)
                         THEN Err(custom(28, "reserved identifier: " \o func[1].v), c)
                         ELSE IF ~AllSymbols(Tail(func))
                         THEN Err(syntax(27, "function parameters must be symbols"), c)
                         ELSE R(nil, Insert(c, func[1].v,
                                    create_lambda(Tail(func), SubSeq(list, 3, Len(list)), c)))
                [] OTHER ->
                     Err(syntax(26, "define must bind either a function or a symbol"), c)

(* an if that evaluates both branches and returns the selected one *)
IfBothBranches(list, c, d) ==
    IF Len(list) < 2 THEN Err(arity(3, Len(list)), c)
    ELSE LET cnd == Eval(list[2], c, d)
         IN  IF IsPanic(cnd.res) \/ is_exception(cnd.res) THEN cnd
             ELSE IF Len(list) < 4 THEN Err(arity(3, Len(list)), cnd.c)
             ELSE IF cnd.res.t = "bool"
             THEN LET a == Eval(list[3], cnd.c, d)
                      b == Eval(list[4], a.c, d)
                  IN  R(IF cnd.res.v THEN a.res ELSE b.res, b.c)
             ELSE Err(signature("bool, any, any", "num, cons, cons"), cnd.c)

(* (if <cond> <then> <else>) *)
if_expr(list, c, d) ==
    IF Len(list) < 2 THEN Err(arity(3, Len(list)), c)
    ELSE LET cnd == Eval(list[2], c, d)
         IN  IF IsPanic(cnd.res) \/ is_exception(cnd.res) THEN cnd
             ELSE IF Len(list) < 4 THEN Err(arity(3, Len(list)), cnd.c)
             ELSE IF cnd.res.t = "bool"
             THEN IF cnd.res.v THEN Eval(list[3], cnd.c, d) ELSE Eval(list[4], cnd.c, d)
             ELSE Err(signature("bool, any, any",
                        type_of(cnd.res) \o ", " \o type_of(list[3]) \o ", "
                            \o type_of(list[4])), cnd.c)

(* the `for branch in branches.iter()` loop of cond and what follows it *)
cond_loop(branches, c, d) ==
    IF branches = << >> THEN R(nil, DescendScope(c))
    ELSE LET branch == Head(branches)
         IN  IF branch.t = "cons" /\ Len(branch.v) = 2
             THEN LET p == Eval(branch.v[1], c, d)
                  IN  CASE IsPanic(p.res) -> p
                        [] is_exception(p.res) -> p
                        [] p.res.t = "bool" /\ ~p.res.v -> cond_loop(Tail(branches), p.c, d)
                        [] p.res.t = "bool" /\ p.res.v ->
                              Eval(branch.v[2], DescendScope(p.c), d)
                        [] OTHER ->
                              Err(syntax(18, "condition must be a boolean value"),
                                  DescendScope(p.c))
             ELSE Err(syntax(20, "condition case must be a list"), DescendScope(c))

RECURSIVE Reversed(_)
Reversed(l) == IF l = << >> THEN << >> ELSE Reversed(Tail(l)) \o <<Head(l)>>

(* a cond that examines its clauses from the last to the first *)
CondLastFirst(list, c, d) ==
    cond_loop(IF list = << >> THEN << >> ELSE Reversed(Tail(list)),
              Insert(AscendScope(c), "else", Bool(TRUE)), d)

(* (cond [<pred> <expr>] ...) *)
cond(list, c, d) ==
    cond_loop(IF list = << >> THEN << >> ELSE Tail(list),
              Insert(AscendScope(c), "else", Bool(TRUE)), d)

(* a binding loop that gives up at the first binding whose value is an Error *)
LetBindingsStopAtError(bindings, c, d) ==
    IF bindings = << >> THEN [ok |-> TRUE, c |-> c, panic |-> None]
    ELSE LET binding == Head(bindings)
         IN  IF binding.t = "cons" /\ Len(binding.v) = 2 /\ binding.v[1].t = "sym"
             THEN LET value == Eval(binding.v[2], c, d)
                  IN  IF IsPanic(value.res)
                      THEN [ok |-> FALSE, c |-> value.c, panic |-> Some(value.res)]
                      ELSE IF is_exception(value.res)
                      THEN [ok |-> FALSE, c |-> value.c, panic |-> None, ex |-> value.res.ex]
                      ELSE let_bindings(Tail(bindings),
                                        Insert(value.c, binding.v[1].v, value.res), d)
             ELSE [ok |-> FALSE, c |-> c, panic |-> None, ex |-> arity(2, 0)]

(* the `for binding in bindings.iter()` loop of let_expr *)
let_bindings(bindings, c, d) ==
    IF bindings = << >> THEN [ok |-> TRUE, c |-> c, panic |-> None]
    ELSE LET binding == Head(bindings)
         IN  IF binding.t = "cons" /\ Len(binding.v) = 2
             THEN IF binding.v[1].t = "sym"
                  THEN LET value == Eval(binding.v[2], c, d)
                       IN  IF IsPanic(value.res)
                           THEN [ok |-> FALSE, c |-> value.c, panic |-> Some(value.res)]
                           ELSE let_bindings(Tail(bindings),
                                    IF ~is_exception(value.res)
                                    THEN Insert(value.c, binding.v[1].v, value.res)
                                    ELSE value.c, d)
                  ELSE [ok |-> FALSE, c |-> c, panic |-> None,
                        ex |-> syntax(22, "identifier in binding must be a symbol, found "
                                            \o Display(binding.v[1]))]
             ELSE IF binding.t = "cons"
             THEN [ok |-> FALSE, c |-> c, panic |-> None, ex |-> arity(2, Len(binding.v))]
             ELSE [ok |-> FALSE, c |-> c, panic |-> None,
                   ex |-> syntax(23, "binding must be a list containing a symbol and a value, found "
                                       \o Display(binding))]

(* (let ([<name> <value>] ...) <expr> ...) *)
let_expr(list, c, d) ==
    LET c1 == AscendScope(c)
    IN  IF Len(list) < 2 THEN Err(arity(2, 0), DescendScope(c1))
        ELSE IF list[2].t # "cons"
        THEN Err(syntax(21, "binding list must be a list of bindings"), DescendScope(c1))
        ELSE LET b == let_bindings(list[2].v, c1, d)
                 rest == SubSeq(list, 3, Len(list))
             IN  IF b.panic.some THEN R(b.panic.v, b.c)
                 ELSE IF ~b.ok THEN Err(b.ex, DescendScope(b.c))
                 ELSE LET body == Eval(IF Len(rest) = 1 THEN Head(rest) ELSE wrap_begin(rest),
                                       b.c, d)
                      IN  IF IsPanic(body.res) THEN body
                          ELSE R(body.res, DescendScope(body.c))

(* an error struct whose first two fields are exchanged *)
ErrorStructSwapped(ex) ==
    Struct("error", <<Str(ExceptionToString(ex)), Num(error_code(ex)), Cons(ex.stack)>>)

(* the `error` struct that try_expr hands to the handler *)
ErrorStruct(ex) ==
    Struct("error", <<Num(error_code(ex)), Str(ExceptionToString(ex)), Cons(ex.stack)>>)

(* (try <expr> <handler>) *)
try_expr(list, c, d) ==
    LET n == UsizeDec(Len(list))
    IN  IF ~n.some THEN R(OverflowPanic, c)
        ELSE IF n.v # 2 THEN Err(arity(2, n.v), c)
        ELSE LET handler == Eval(list[3], c, d)
             IN  IF IsPanic(handler.res) THEN handler
                 ELSE IF is_callable(handler.res)
                 THEN LET expr == Eval(list[2], handler.c, d)
                      IN  IF is_exception(expr.res)
                          THEN Eval(Cons(<<handler.res, ErrorStruct(expr.res.ex)>>), expr.c, d)
                          ELSE expr
                 ELSE Err(custom(2, "not a callable value: " \o Backtick
                                      \o Display(handler.res) \o Backtick), handler.c)

(* the `for expr in list.tail()` loop of begin *)
begin_loop(exprs, last_expr, c, d) ==
    IF exprs = << >> THEN R(last_expr, c)
    ELSE LET result == Eval(Head(exprs), c, d)
         IN  IF IsPanic(result.res) \/ is_exception(result.res) THEN result
             ELSE begin_loop(Tail(exprs), result.res, result.c, d)

(* (begin <expr> ...) *)
begin(list, c, d) ==
    begin_loop(IF list = << >> THEN << >> ELSE Tail(list), nil, c, d)

----------------------------------------------------------------------------
(* define-struct and the closures it generates *)

StructGet(i) == [t |-> "callable", k |-> "Intrinsic", f |-> "get", i |-> i]
StructCheck(id) == [t |-> "callable", k |-> "Intrinsic", f |-> "check", id |-> id]
StructMake(member_count) ==
    [t |-> "callable", k |-> "Macro", f |-> "make", member_count |-> member_count]

(* the `get` closure: the accessor of field i (0-based) *)
struct_get(f, args, c) ==
    IF Len(args) = 1 /\ args[1].t = "struct"
    THEN IF f.i < Len(args[1].data) THEN R(args[1].data[f.i + 1], c)
         ELSE Err(custom(29, "struct does not contain specified field"), c)
    ELSE Err(arity(1, Len(args)), c)

(* the `check` closure: the predicate is-<name>? *)
struct_check(f, args, c) ==
    IF Len(args) = 1 /\ args[1].t = "struct"
    THEN LET struct_id == GetStructId(c, args[1].name)
         IN  IF struct_id.some THEN R(Bool(struct_id.v = f.id), c) ELSE R(Bool(FALSE), c)
    ELSE R(Bool(FALSE), c)

(* the evaluation of the constructor's arguments, `args.iter().skip(1)` *)
make_args(xs, member_data, c, d) ==
    IF xs = << >> THEN [err |-> FALSE, vals |-> member_data, c |-> c]
    ELSE LET res == Eval(Head(xs), c, d)
         IN  IF IsPanic(res.res) \/ is_exception(res.res)
             THEN [err |-> TRUE, res |-> res.res, c |-> res.c]
             ELSE make_args(Tail(xs), Append(member_data, res.res), res.c, d)

(* the length of the prefix "make-" that the constructor cuts off *)
prefix_len == Len("make-")

(* the `make` closure: the constructor make-<name> *)
struct_make(f, args, c, d) ==
    LET arg_count == UsizeDec(Len(args))
    IN  IF ~arg_count.some THEN R(OverflowPanic, c)
        ELSE IF arg_count.v = UsizeMax THEN R(Panic("capacity overflow"), c)
        ELSE LET m == make_args(Tail(args), << >>, c, d)
             IN  IF m.err THEN R(m.res, m.c)
                 ELSE IF arg_count.v = f.member_count
                 THEN IF args[1].t = "sym"
                      THEN IF prefix_len <= Len(args[1].v)
                           THEN R(Struct(SubSeq(args[1].v, prefix_len + 1, Len(args[1].v)),
                                         m.vals), m.c)
                           ELSE R(Panic("byte index 5 is out of bounds"), m.c)
                      ELSE R(Panic("unreachable"), m.c)
                 ELSE Err(arity(f.member_count, arg_count.v), m.c)

RECURSIVE InsertAccessors(_, _, _, _)
(* `for (i, member) in member_names.iter().enumerate()` *)
InsertAccessors(c, name, members, i) ==
    IF i = Len(members) THEN c
    ELSE InsertAccessors(Insert(c, name \o "-" \o members[i + 1].v, StructGet(i)),
                         name, members, i + 1)

(* (define-struct <name> [<field1> ...]) *)
define_struct(list, c, d) ==
    LET n == UsizeDec(Len(list))
    IN  IF ~n.some THEN R(OverflowPanic, c)
        ELSE IF n.v # 2 THEN Err(arity(2, n.v), c)
        ELSE IF list[2].t # "sym" THEN Err(signature("symbol", type_of(list[2])), c)
        ELSE LET name == list[2].v
                 ds == DefineStruct(c, name)
                 members == list[3]
             IN  IF ~ds.id.some THEN Err(custom(31, "could not define struct"), ds.c)
                 ELSE IF members.t # "cons"
                 THEN Err(signature("cons", type_of(list[2])), ds.c)
                 ELSE IF ~AllSymbols(members.v)
                 THEN Err(signature("symbol",
                            type_of(members.v[CHOOSE i \in 1..Len(members.v) :
                                        /\ members.v[i].t # "sym"
                                        /\ \A j \in 1..(i - 1) : members.v[j].t = "sym"])),
                          ds.c)
                 ELSE LET c1 == InsertAccessors(ds.c, name, members.v, 0)
                          c2 == Insert(c1, "is-" \o name \o "?", StructCheck(ds.id.v))
                          c3 == Insert(c2, "make-" \o name, StructMake(Len(members.v)))
                      IN  R(nil, c3)

(* Expression::call, Macro arm: f(list.clone(), ctx) *)
CallMacro(f, list, c, d) ==
    CASE f.f = "define" -> define(list, c, d)
      [] f.f = "lambda" -> lambda(list, c, d)
      [] f.f = "if" -> if_expr(list, c, d)
      [] f.f = "cond" -> cond(list, c, d)
      [] f.f = "let" -> let_expr(list, c, d)
      [] f.f = "try" -> try_expr(list, c, d)
      [] f.f = "define-struct" -> define_struct(list, c, d)
      [] f.f = "begin" -> begin(list, c, d)
      [] f.f = "make" -> struct_make(f, list, c, d)

----------------------------------------------------------------------------
(* Intrinsic functions: each receives the evaluated arguments *)

RECURSIVE SumNums(_)
SumNums(xs) == IF xs = << >> THEN 0 ELSE Head(xs).v + SumNums(Tail(xs))

(* struct Quat(a, b, c, d): a + bi + cj + dk *)
Quat(a, b, c, d) == [a |-> a, b |-> b, c |-> c, d |-> d]

(* impl Default for Quat *)
QuatDefault == Quat(0, 0, 0, 0)

(* impl From<f64> for Quat *)
QuatFrom(n) == Quat(n, 0, 0, 0)

(* impl ops::Add for Quat *)
QuatAdd(p, q) == Quat(p.a + q.a, p.b + q.b, p.c + q.c, p.d + q.d)

(* a product with the i-j cross terms of the b component dropped *)
QuatMulCommutative(p, q) ==
    Quat(p.a * q.a - p.b * q.b - p.c * q.c - p.d * q.d,
         p.a * q.b + p.b * q.a,
         p.a * q.c + p.c * q.a,
         p.a * q.d + p.d * q.a)

(* impl ops::Mul for Quat *)
QuatMul(p, q) ==
    Quat(p.a * q.a - p.b * q.b - p.c * q.c - p.d * q.d,
         p.a * q.b + p.b * q.a + p.c * q.d - p.d * q.c,
         p.a * q.c - p.b * q.d + p.c * q.a + p.d * q.b,
         p.a * q.d + p.b * q.c - p.c * q.b + p.d * q.a)

(* the division of two f64: exact where the quotient is an integer, the   *)
(* unreduced ratio otherwise; a zero divisor gives the ratio x/0           *)
FDiv(x, y) ==
    IF y # 0 /\ x % y = 0 THEN x \div y ELSE [num |-> x, den |-> y]

AllNums(args) == \A i \in 1..Len(args) : args[i].t = "num"
AllNumsOrQuats(args) == \A i \in 1..Len(args) : args[i].t \in {"num", "quat"}

(* the first argument that fails the map of the collect() *)
FirstNot(args, kinds) ==
    args[CHOOSE i \in 1..Len(args) :
            /\ args[i].t \notin kinds
            /\ \A j \in 1..(i - 1) : args[j].t \in kinds]

(* Num(n) => Quat::from(n), Quaternion(q) => q *)
Promote(e) == IF e.t = "num" THEN QuatFrom(e.v) ELSE e.q

RECURSIVE FoldQuat(_, _, _)
(* xs.into_iter().fold(init, op) over the promoted arguments *)
FoldQuat(args, acc, is_mul) ==
    IF args = << >> THEN acc
    ELSE FoldQuat(Tail(args),
                  IF is_mul THEN QuatMul(acc, Promote(Head(args)))
                  ELSE QuatAdd(acc, Promote(Head(args))),
                  is_mul)

RECURSIVE FoldNum(_, _, _)
(* nums.into_iter().fold(head, op), op one of * - / *)
FoldNum(args, acc, op) ==
    IF args = << >> THEN acc
    ELSE FoldNum(Tail(args),
                 CASE op = "*" -> acc * Head(args).v
                   [] op = "-" -> acc - Head(args).v
                   [] op = "/" -> FDiv(acc, Head(args).v),
                 op)

(* + :: num ... -> num *)
add(args, c) ==
    IF AllNums(args)
    THEN R(Num(SumNums(args)), c)
    ELSE IF AllNumsOrQuats(args)
    THEN R(Quaternion(FoldQuat(args, QuatDefault, FALSE)), c)
    ELSE Err(arity(0, 0), c)

(* the shape shared by sub and div: negation or reciprocal of one          *)
(* argument, a fold from the first argument over the others                *)
SubDiv(args, c, op) ==
    IF Len(args) = 0
    THEN Err(custom(4, "arity mismatch: expected at least 1 argument, found 0"), c)
    ELSE IF args[1].t # "num" THEN Err(signature("num", type_of(args[1])), c)
    ELSE IF Len(args) = 1
    THEN R(Num(IF op = "-" THEN 0 - args[1].v ELSE FDiv(1, args[1].v)), c)
    ELSE IF AllNums(Tail(args))
    THEN R(Num(FoldNum(Tail(args), args[1].v, op)), c)
    ELSE R(Num(args[1].v), c)

(* - :: num ... -> num *)
sub(args, c) == SubDiv(args, c, "-")

(* * :: num ... -> num *)
mul(args, c) ==
    IF AllNums(args)
    THEN R(Num(FoldNum(args, 1, "*")), c)
    ELSE IF AllNumsOrQuats(args)
    THEN R(Quaternion(FoldQuat(args, Quat(1, 0, 0, 0), TRUE)), c)
    ELSE Err(signature("num", type_of(FirstNot(args, {"num", "quat"}))), c)

(* / :: num ... -> num *)
div(args, c) == SubDiv(args, c, "/")

(* eq? :: a a -> bool *)
eq(args, c) ==
    IF Len(args) = 2 THEN R(Bool(ExprEq(args[1], args[2])), c)
    ELSE Err(arity(2, Len(args)), c)

RECURSIVE display_loop(_, _)
display_loop(args, c) ==
    IF args = << >> THEN c
    ELSE display_loop(Tail(args), Print_(c, FmtArg(Head(args))))

(* display :: a ... -> nil *)
display(args, c) == R(nil, display_loop(args, c))

(* eval :: a -> b *)
eval(args, c, d) ==
    IF Len(args) = 1 THEN Eval(args[1], c, d) ELSE Err(arity(1, Len(args)), c)

(* type-of :: a -> symbol *)
type_of_fn(args, c) ==
    IF Len(args) = 1 THEN R(Symbol(type_of(args[1])), c) ELSE Err(arity(1, Len(args)), c)

(* set :: symbol a -> nil *)
set(args, c) ==
    IF Len(args) = 2
    THEN IF args[1].t = "sym"
         THEN IF Get(c, args[1].v).some THEN R(nil, SetMut(c, args[1].v, args[2]))
              ELSE Err(undefined(args[1].v), c)
         ELSE Err(signature("symbol", type_of(args[1])), c)
    ELSE Err(arity(2, Len(args)), c)

(* the `for section in sections` loop of format_str *)
format_loop(sections, buf, c, d) ==
    IF sections = << >> THEN R(Str(buf), c)
    ELSE LET section == Head(sections)
         IN  IF section.k = "Literal"
             THEN format_loop(Tail(sections), buf \o section.s, c, d)
             ELSE LET expr == parse_expr(section.s)
                  IN  IF expr.some
                      THEN LET res == Eval(expr.v, AscendScope(c), d)
                           IN  IF IsPanic(res.res) \/ is_exception(res.res) THEN res
                               ELSE format_loop(Tail(sections), buf \o FmtArg(res.res),
                                                DescendScope(res.c), d)
                      ELSE Err(syntax(31, "format string must contain expression to interpolate"), c)

format_str(sections, c, d) == format_loop(sections, "", c, d)

(* format :: string -> string *)
format(args, c, d) ==
    IF Len(args) = 1
    THEN IF args[1].t = "str"
         THEN LET sections == split_str(args[1].v)
              IN  IF sections.ok THEN format_str(sections.strs, c, d)
                  ELSE Err(sections.ex, c)
         ELSE Err(signature("str", type_of(args[1])), c)
    ELSE Err(arity(1, Len(args)), c)

(* the `for _ in 0..n` loop of repeat *)
repeat_loop(n, cb, c, d) ==
    IF n <= 0 THEN R(nil, c)
    ELSE LET res == Call(cb, << >>, c, d)
         IN  IF IsPanic(res.res) \/ is_exception(res.res) THEN res
             ELSE repeat_loop(n - 1, cb, res.c, d)

(* repeat :: num procedure -> nil *)
repeat(args, c, d) ==
    IF Len(args) = 2
    THEN IF args[1].t = "num" /\ args[2].t = "callable"
         THEN repeat_loop(args[1].v, args[2], c, d)
         ELSE Err(signature("(num, procedure)",
                    "(" \o type_of(args[1]) \o ", " \o type_of(args[2]) \o ")"), c)
    ELSE Err(arity(2, Len(args)), c)

(* Expression::call, Intrinsic arm: f(&args, ctx) *)
CallIntrinsic(f, args, c, d) ==
    CASE f.f = "+" -> add(args, c)
      [] f.f = "-" -> sub(args, c)
      [] f.f = "*" -> mul(args, c)
      [] f.f = "/" -> div(args, c)
      [] f.f = "eq?" -> eq(args, c)
      [] f.f = "display" -> display(args, c)
      [] f.f = "eval" -> eval(args, c, d)
      [] f.f = "type-of" -> type_of_fn(args, c)
      [] f.f = "set-internal!" -> set(args, c)
      [] f.f = "format" -> format(args, c, d)
      [] f.f = "repeat" -> repeat(args, c, d)
      [] f.f = "get" -> struct_get(f, args, c)
      [] f.f = "check" -> struct_check(f, args, c)

----------------------------------------------------------------------------
(* Pattern matching of user-defined syntax rules *)

(* Result<Matches, Exception> *)
Ok(matches) == [ok |-> TRUE, matches |-> matches]
Fail(ex) == [ok |-> FALSE, ex |-> ex]

(* syntax.contains(s) *)
Contains(literals, s) == \E i \in 1..Len(literals) : literals[i] = s

RECURSIVE extract_matches(_, _, _, _)
RECURSIVE extract_zip(_, _, _, _)

(* `for (pat, found) in l1.iter().zip(l2.iter())`, left by `?` at the first Err *)
extract_zip(literals, l1, l2, to) ==
    IF l1 = << >> \/ l2 = << >> THEN Ok(to)
    ELSE LET r == extract_matches(literals, Head(l1), Head(l2), to)
         IN  IF r.ok THEN extract_zip(literals, Tail(l1), Tail(l2), r.matches) ELSE r

(* extract_matches: the arms of the match in their order *)
extract_matches(literals, pattern, input, to) ==
    CASE pattern.t = "sym" /\ input.t = "sym"
            /\ Contains(literals, pattern.v) /\ pattern.v = input.v -> Ok(to)
      [] pattern.t = "sym"
            /\ ~(input.t = "sym" /\ Contains(literals, pattern.v) /\ pattern.v = input.v) ->
            Ok(MapInsert(to, pattern.v, input))
      [] pattern.t = "cons" /\ input.t = "cons" /\ Len(pattern.v) = Len(input.v) ->
            extract_zip(literals, pattern.v, input.v, to)
      [] OTHER ->
            IF ExprEq(pattern, input) THEN Ok(to)
            ELSE Fail(custom(42, "pattern match failure: expected " \o Backtick
                                   \o Display(pattern) \o Backtick \o ", found "
                                   \o Backtick \o Display(input) \o Backtick))

(* pattern_match: starts from an empty HashMap *)
pattern_match(literals, pattern, input) == extract_matches(literals, pattern, input, EmptyMap)

----------------------------------------------------------------------------
(* The interpreter as a state machine: the front end evaluates one         *)
(* top-level form after another in the same Context.                       *)

(* init_context: the intrinsics and macros the modelled programs use *)
InitBindings ==
    [x \in {"define", "lambda", "if", "cond", "let", "try", "define-struct", "begin",
            "+", "-", "*", "/", "eq?", "display", "eval", "type-of", "set-internal!",
            "format", "repeat"} |->
        IF x \in {"define", "lambda", "if", "cond", "let", "try", "define-struct", "begin"}
        THEN Macro(x) ELSE Intrinsic(x)]

(* Context::new followed by init_context *)
InitScopes == <<[bindings |-> InitBindings, structs |-> EmptyMap]>>

L2(a, b) == Cons(<<a, b>>)
L3(a, b, c) == Cons(<<a, b, c>>)
L4(a, b, c, e) == Cons(<<a, b, c, e>>)
S(x) == Symbol(x)

(* (lambda [params] body) *)
Lam(params, body) == L3(S("lambda"), Cons(params), body)

(* (define x 1) (define x 2) (define f (lambda () x)) *)
DefineForms ==
    { L3(S("define"), S("x"), Num(1)),
      L3(S("define"), S("x"), Num(2)),
      L3(S("define"), S("f"), Lam(<< >>, S("x"))) }

LookupForms == { S("x"), S("f") }

CondForms ==
    { L2(S("cond"), L2(Bool(TRUE), Num(1))),
      L2(S("cond"), L2(Bool(FALSE), Num(1))),
      L3(S("cond"), L2(Bool(FALSE), Num(1)), L2(S("else"), S("x"))),
      L2(S("cond"), L2(S("undef"), Num(1))),
      L3(S("cond"), L2(Bool(FALSE), Num(1)), L2(S("undef"), Num(1))),
      L2(S("cond"), L2(Num(1), Num(2))),
      L2(S("cond"), Num(5)),
      L2(S("cond"), Cons(<<Bool(TRUE)>>)),
      Cons(<<S("cond")>>) }

(* (let ([x 2]) body) *)
LetX(body) == L3(S("let"), Cons(<<L2(S("x"), Num(2))>>), body)

LetForms ==
    { LetX(S("x")),
      LetX(S("undef")),
      LetX(L2(S("cond"), L2(S("undef"), Num(1)))),
      LetX(L2(S("format"), Str("#{undef}"))),
      L3(S("let"), Cons(<<L2(S("x"), S("undef"))>>), Num(1)),
      L3(S("let"), Num(5), S("x")),
      Cons(<<S("let")>>),
      L3(S("let"), Cons(<<Cons(<<S("x")>>)>>), S("x")),
      L3(S("let"), Cons(<<L2(S("x"), Num(2)), Num(7)>>), S("x")),
      L3(S("let"), Cons(<<L2(Num(1), Num(2))>>), S("x")) }

Say(s) == L2(S("display"), Str(s))

ApplyForms ==
    { Cons(<<S("f")>>),
      L2(S("f"), Num(1)),
      L2(Lam(<<S("x")>>, S("x")), Num(2)),
      L2(Lam(<<S("x")>>, L2(S("cond"), L2(S("undef"), Num(1)))), Num(2)),
      L3(Lam(<<S("a")>>, Say("body")), Num(1), Num(2)),
      Cons(<<Lam(<<S("a")>>, Say("body"))>>),
      L3(Lam(<<S("a")>>, Say("body")), S("undef"), Num(2)),
      L3(Lam(<<S("a")>>, Say("body")), L3(S("define"), S("x"), Num(1)), Num(2)),
      L4(Lam(<<S("a"), S("b"), S("c")>>, Say("body")), Say("a"), S("undef"), Say("b")),
      L3(Lam(<<S("a"), S("b")>>, Say("body")), Say("a"), Say("b")),
      L4(S("display"), Say("a"), S("undef"), Say("b")),
      L3(S("display"), Say("a"), Say("b")),
      L3(S("+"), Num(1), Num(2)) }

FormatForms ==
    { L2(S("format"), Str("x=#{x}.")),
      L2(S("format"), Str("#{1}#{undef}")),
      L2(S("format"), Str("plain")),
      L2(S("format"), Str("#{}")),
      L2(S("format"), Str("#{x")),
      L2(S("format"), Num(5)) }

(* (define-struct point [x]) and its malformed variants *)
DefineStructForms ==
    { L3(S("define-struct"), S("point"), Cons(<<S("x")>>)),
      L3(S("define-struct"), S("line"), Cons(<<S("x")>>)),
      L3(S("define-struct"), S("point"), Num(1)),
      L2(S("define-struct"), S("point")) }

DefF == L3(S("define"), S("f"), Lam(<< >>, S("x")))
DefP == L3(S("define"), S("p"), L2(S("make-point"), Num(1)))
DefMk == L3(S("define"), S("mk"), S("make-point"))
CallF == Cons(<<S("f")>>)

InstanceForms == { DefP, DefMk }

StructApplyForms ==
    { L2(S("is-point?"), S("p")),
      L2(S("is-line?"), S("p")),
      L2(S("is-point?"), Num(5)),
      L2(S("is-line?"), L2(S("make-line"), Num(1))),
      L2(S("point-x"), S("p")),
      L2(S("point-x"), Num(5)),
      L2(S("point-x"), L2(S("make-line"), Num(7))),
      L3(S("make-point"), Num(1), Num(2)),
      L2(S("make-point"), S("undef")),
      L2(S("mk"), Num(1)),
      L2(L2(S("begin"), S("make-point")), Num(1)) }

RepeatForms ==
    { L3(S("repeat"), Num(2), Lam(<< >>, Say("r"))),
      L3(S("repeat"), Num(1), Lam(<<S("a")>>, Say("r"))),
      L3(S("repeat"), Num(1), S("cond")),
      L3(S("repeat"), Num(1), S("display")),
      L3(S("repeat"), Num(1), Quote),
      L3(S("repeat"), Num(1), S("try")),
      L3(S("repeat"), Num(1), S("make-point")),
      L3(S("repeat"), Num(1), Num(2)) }

Handler == Lam(<<S("e")>>, S("e"))
Try(expr, handler) == L3(S("try"), expr, handler)

TryForms ==
    { Try(S("undef"), Handler),
      Try(Cons(<<Lam(<<S("a")>>, S("a"))>>), Handler),
      Try(L2(S("format"), Num(5)), Handler),
      Try(L2(S("cond"), Num(5)), Handler),
      Try(L3(S("define"), S("if"), Num(1)), Handler),
      Try(S("undef"), Lam(<<S("e")>>, Say("h"))),
      Try(S("undef"), S("display")),
      Try(S("undef"), Lam(<< >>, Say("h"))),
      Try(Num(1), Lam(<<S("e")>>, Say("h"))),
      Try(Say("e"), Num(5)),
      Try(S("undef"), S("undef")),
      Try(Say("e"), S("undef")),
      Try(Say("e"), L3(S("begin"), Say("h"), Handler)),
      L2(S("try"), S("undef")) }

(* (begin (display s) v): prints s, then evaluates to v *)
SayThen(s, v) == L3(S("begin"), Say(s), v)

(* (define <symbol> <value>) at the top level and inside a let *)
DefineSymForms ==
    { L3(S("define"), S("x"), Num(1)),
      L3(S("define"), S("x"), Num(2)),
      L3(S("define"), S("y"), S("x")),
      L3(S("define"), S("x"), S("undef")),
      L3(S("define"), S("define"), Num(1)),
      L3(S("define"), S("cond"), Num(1)),
      L3(S("define"), S("lambda"), Num(1)),
      L3(S("define"), S("if"), Say("v")),
      L3(S("define"), S("let"), Num(1)),
      L3(S("let"), Cons(<<L2(S("x"), Num(5))>>), L3(S("begin"), L3(S("define"), S("x"), Num(3)), S("x"))),
      L3(S("let"), Cons(<<L2(S("z"), Num(5))>>), L3(S("begin"), L3(S("define"), S("x"), Num(3)), S("x"))) }

IfForm(cnd) == L4(S("if"), cnd, Say("t"), Say("e"))

IfForms ==
    { IfForm(Bool(TRUE)),
      IfForm(Bool(FALSE)),
      IfForm(S("undef")),
      IfForm(Num(5)),
      IfForm(SayThen("c", Bool(TRUE))),
      IfForm(SayThen("c", Bool(FALSE))),
      IfForm(L3(S("eq?"), S("x"), Num(1))),
      Cons(<<S("if")>>),
      L2(S("if"), Bool(TRUE)),
      L3(S("if"), Bool(TRUE), Say("t")),
      L2(S("if"), S("undef")),
      Cons(<<S("if"), Bool(TRUE), Say("t"), Say("e"), Say("x")>>),
      Cons(<<S("if"), Bool(FALSE), Say("t"), Say("e"), Say("x")>>) }

(* [pred value], both announcing their evaluation *)
Clause(n, b) == L2(SayThen("p" \o ToString(n), Bool(b)), SayThen("v" \o ToString(n), Num(n)))

CondClauseForms ==
    { L4(S("cond"), Clause(1, FALSE), Clause(2, TRUE), Clause(3, TRUE)),
      L4(S("cond"), Clause(1, TRUE), Clause(2, FALSE), Clause(3, TRUE)),
      L3(S("cond"), Clause(1, FALSE), Clause(2, FALSE)),
      L3(S("cond"), Clause(1, FALSE), L2(S("else"), SayThen("v2", Num(2)))),
      L4(S("cond"), Clause(1, FALSE), Clause(2, TRUE), L2(S("undef"), Num(3))),
      L2(S("cond"), L2(Bool(FALSE), Num(1))),
      Cons(<<S("cond")>>) }

Quasi(e) == L2(Quasiquote, e)
Unq(e) == L2(Unquote, e)

QuasiForms ==
    { Quasi(S("x")),
      Quasi(Num(1)),
      Quasi(Cons(<<Num(1), Unq(L3(S("+"), Num(1), Num(2))), S("x")>>)),
      Quasi(Unq(S("x"))),
      Quasi(L2(Unq(Say("a")), L2(S("x"), Unq(Say("b"))))),
      Quasi(L3(Unquote, Say("a"), Num(1))),
      Quasi(Cons(<<Unquote>>)),
      Quasi(L2(Say("a"), Unq(S("undef")))),
      Quasi(nil),
      Unq(S("x")),
      Unq(Say("a")),
      Cons(<<Quasiquote>>) }

(* the empty list, alone and as the value of a definition *)
EmptyListForms == { nil, L3(S("define"), S("y"), nil), L2(S("begin"), nil) }

LetSeqForms ==
    { L3(S("let"), Cons(<<L2(S("a"), Num(1)), L2(S("b"), S("a"))>>), S("b")),
      L3(S("let"), Cons(<<L2(S("a"), Num(1)), L2(S("b"), L3(S("+"), S("a"), Num(1)))>>), S("b")),
      L3(S("let"), Cons(<<L2(S("b"), S("a")), L2(S("a"), Num(1))>>), S("b")),
      L3(S("let"), Cons(<<L2(S("a"), S("undef")), L2(S("b"), Num(2))>>), S("b")),
      L3(S("let"), Cons(<<L2(S("a"), S("undef")), L2(S("b"), Num(2))>>), S("a")),
      L3(S("let"), Cons(<<L2(S("x"), S("undef"))>>), S("x")),
      L3(S("let"), Cons(<<L2(S("a"), Say("1")), L2(S("b"), S("undef")), L2(S("c"), Say("3"))>>),
         Say("body")) }

(* the literal keywords, patterns and inputs handed to pattern_match *)
SyntaxLists == { << >>, <<"kw">>, <<"kw", "a">> }

Patterns ==
    { S("kw"), S("a"), Num(1), nil,
      L2(S("kw"), S("a")),
      L3(S("a"), S("kw"), S("b")),
      L2(S("a"), Num(1)),
      L2(S("a"), S("a")) }

Inputs ==
    { S("kw"), S("other"), Num(1), Num(5), nil,
      L2(S("kw"), Num(5)),
      L2(S("other"), Num(5)),
      L2(Num(5), Num(1)),
      L2(Num(5), Num(7)),
      L3(Num(1), S("kw"), Num(2)),
      L3(Num(1), Num(7), Num(2)) }

QI == Quat(0, 1, 0, 0)
QJ == Quat(0, 0, 1, 0)
QK == Quat(0, 0, 0, 1)

Quats == { QI, QJ, QK, Quat(5, 0, 0, 0), Quat(3, 0, 0, 0), Quat(1, 2, 3, 4) }

ArithOps == { "+", "-", "*", "/" }

Operands ==
    { Num(6), Num(2), Str("a"), Bool(TRUE), Quaternion(QI), Quaternion(Quat(1, 1, 2, 0)) }

(* (op), (op a), (op a b) and (+ 1 1i 2j) *)
ArithForms ==
    { Cons(<<S(op)>>) : op \in ArithOps }
        \cup { L2(S(op[1]), op[2]) : op \in ArithOps \X Operands }
        \cup { L3(S(op[1]), op[2], op[3]) : op \in ArithOps \X Operands \X Operands }
        \cup { L4(S("+"), Num(1), Quaternion(QI), Quaternion(Quat(0, 0, 2, 0))) }

Ctx == [scopes |-> scopes, struct_count |-> struct_count, out |-> << >>]

Eval0(e) == Eval(e, Ctx, MaxDepth)

(* the front end evaluates the form e in the current Context *)
RECURSIVE IsForm(_, _)

(* the form a is the form b, compared variant first and then by content *)
IsForm(a, b) ==
    /\ a.t = b.t
    /\ IF a.t = "cons"
       THEN /\ Len(a.v) = Len(b.v)
            /\ \A i \in 1..Len(a.v) : IsForm(a.v[i], b.v[i])
       ELSE a = b

Step(e) ==
    /\ ~panicked
    /\ Len(scopes) < MaxScopes
    /\ LET r == Eval0(e)
       IN  /\ scopes' = r.c.scopes
           /\ struct_count' = r.c.struct_count
           /\ out' = r.c.out
           /\ last' = [form |-> e, prev |-> scopes, res |-> r.res]
           /\ panicked' = IsPanic(r.res)
           /\ hist' = [x_at_def |-> IF IsForm(e, DefF) /\ r.res = nil
                                    THEN Get(Ctx, "x") ELSE hist.x_at_def,
                       p_id |-> IF IsForm(e, DefP) /\ r.res = nil
                                THEN GetStructId(Ctx, "point") ELSE hist.p_id]
    /\ UNCHANGED <<overflow_checks, pm, qop, ids, exc>>

Init ==
    /\ scopes = InitScopes
    /\ struct_count = 0
    /\ out = << >>
    /\ last = [form |-> nil, prev |-> InitScopes, res |-> nil]
    /\ panicked = FALSE
    /\ hist = [x_at_def |-> None, p_id |-> None]
    /\ overflow_checks \in BOOLEAN
    /\ pm = [syntax |-> << >>, pattern |-> nil, input |-> nil, result |-> Ok(EmptyMap)]
    /\ qop = [p |-> QuatDefault, q |-> QuatDefault, r |-> QuatDefault,
              sum |-> QuatDefault, prod |-> QuatDefault, prod3 |-> QuatDefault]
    /\ ids = << >>
    /\ exc = [ex |-> undefined("x"), recv |-> undefined("x"), sites |-> << >>,
              printed |-> << >>]

Define == \E e \in DefineForms : Step(e)
Lookup == \E e \in LookupForms : Step(e)
CondF == \E e \in CondForms : Step(e)
LetF == \E e \in LetForms : Step(e)
Apply == \E e \in ApplyForms : Step(e)
FormatF == \E e \in FormatForms : Step(e)

DefineStructF == \E e \in DefineStructForms : struct_count < MaxStructs /\ Step(e)
DefineInstance == \E e \in InstanceForms : Step(e)
StructApply == \E e \in StructApplyForms : Step(e)
RepeatF == \E e \in RepeatForms : Step(e)
TryF == \E e \in TryForms : Step(e)

DefineSym == \E e \in DefineSymForms : Step(e)
IfF == \E e \in IfForms : Step(e)
CondClauses == \E e \in CondClauseForms : Step(e)
QuasiF == \E e \in QuasiForms : Step(e)
EmptyList == \E e \in EmptyListForms : Step(e)
LetSeq == \E e \in LetSeqForms : Step(e)

Next == Define \/ Lookup \/ CondF \/ LetF \/ Apply \/ FormatF

(* scoping, closures and calls *)
Spec == Init /\ [][Next]_vars

NextStruct == DefineStructF \/ DefineInstance \/ StructApply \/ RepeatF \/ TryF

(* struct types, the constructor, repeat and try *)
SpecStruct == Init /\ [][NextStruct]_vars

(* one call pattern_match(syntax, pattern, input) *)
PatternMatch ==
    \E literals \in SyntaxLists, pattern \in Patterns, input \in Inputs :
        /\ pm' = [syntax |-> literals, pattern |-> pattern, input |-> input,
                  result |-> pattern_match(literals, pattern, input)]
        /\ UNCHANGED <<scopes, struct_count, out, last, panicked, hist, overflow_checks, qop,
                       ids, exc>>

NextPattern == PatternMatch

(* p + q, p * q and p * q * r for three quaternions *)
QuatOp ==
    \E p \in Quats, q \in Quats, r \in Quats :
        /\ qop' = [p |-> p, q |-> q, r |-> r,
                   sum |-> QuatAdd(p, q),
                   prod |-> QuatMul(p, q),
                   prod3 |-> QuatMul(QuatMul(p, q), r)]
        /\ UNCHANGED <<scopes, struct_count, out, last, panicked, hist, overflow_checks, pm,
                       ids, exc>>

NextQuat == QuatOp

(* quaternion addition and multiplication, on their own *)
SpecQuat == Init /\ [][NextQuat]_vars

(* a call of an arithmetic built-in *)
Arith == \E e \in ArithForms : Step(e)

NextArith == Arith

(* the arithmetic built-ins over numbers, quaternions and other values *)
SpecArith == Init /\ [][NextArith]_vars

----------------------------------------------------------------------------
(* Closures: lambdas that refer to their own name, to a parameter, to a    *)
(* global                                                                  *)

(* (define f 1) *)
DefOld == L3(S("define"), S("f"), Num(1))
(* (define (f) f) *)
DefSelf == L3(S("define"), Cons(<<S("f")>>), S("f"))
(* (define (h x) x) *)
DefParam == L3(S("define"), L2(S("h"), S("x")), S("x"))
(* (lambda () (define (g) g) g), the body wrapped in begin by create_lambda *)
MakeSelf == L4(S("lambda"), nil, L3(S("define"), Cons(<<S("g")>>), S("g")), S("g"))
(* ((lambda () (define (g) g) (g))): g called inside its defining scope *)
CallSelfInside ==
    Cons(<<L4(S("lambda"), nil, L3(S("define"), Cons(<<S("g")>>), S("g")),
              Cons(<<S("g")>>))>>)
(* (((lambda () (define (g) g) g))): g called after its scope was popped *)
CallSelfOutside == Cons(<<Cons(<<MakeSelf>>)>>)

DefX1 == L3(S("define"), S("x"), Num(1))
LamParam == Lam(<<S("x")>>, S("x"))
LamFree == Lam(<<S("y")>>, S("x"))
LamConst == Lam(<< >>, Num(3))
CallH == L2(S("h"), Num(2))

RECURSIVE CaptureNest(_)

(* how many lambdas bound to f are nested in the capture of the value v *)
CaptureNest(v) ==
    IF v.t = "callable" /\ v.k = "Lambda" /\ "f" \in DOMAIN v.capture
    THEN 1 + CaptureNest(v.capture["f"])
    ELSE 0

ClosureDefine == Step(DefOld) \/ Step(DefParam) \/ Step(DefX1)
DefineSelf ==
    /\ Get(Ctx, "f").some => CaptureNest(Get(Ctx, "f").v) < MaxNest
    /\ Step(DefSelf)
MakeLambda == Step(LamParam) \/ Step(LamFree) \/ Step(LamConst)
ClosureCall ==
    Step(CallF) \/ Step(CallH) \/ Step(CallSelfInside) \/ Step(CallSelfOutside)

NextClosure == ClosureDefine \/ DefineSelf \/ MakeLambda \/ ClosureCall

(* definitions and calls of self-referencing and capturing lambdas *)
SpecClosure == Init /\ [][NextClosure]_vars

----------------------------------------------------------------------------
(* The Context operations behind struct-type ids, called directly *)

StructNames == {"point", "line", "circle"}

CtxDefineStruct ==
    \E name \in StructNames :
        /\ struct_count < MaxStructs
        /\ LET r == DefineStruct(Ctx, name)
           IN  /\ scopes' = r.c.scopes
               /\ struct_count' = r.c.struct_count
               /\ ids' = IF r.id.some THEN Append(ids, r.id.v) ELSE ids
        /\ UNCHANGED <<out, last, panicked, hist, overflow_checks, pm, qop, exc>>

CtxAscend ==
    /\ Len(scopes) < MaxScopes
    /\ scopes' = AscendScope(Ctx).scopes
    /\ UNCHANGED <<struct_count, out, last, panicked, hist, overflow_checks, pm, qop,
                   ids, exc>>

CtxDescend ==
    /\ scopes' = DescendScope(Ctx).scopes
    /\ UNCHANGED <<struct_count, out, last, panicked, hist, overflow_checks, pm, qop,
                   ids, exc>>

NextCounter == CtxDefineStruct \/ CtxAscend \/ CtxDescend

(* any sequence of define_struct, ascend_scope and descend_scope *)
SpecCounter == Init /\ [][NextCounter]_vars

----------------------------------------------------------------------------
(* An error travelling up through call sites *)

Factories ==
    { arity(1, 2), signature("num", "str"), custom(28, "reserved identifier: if"),
      undefined("x"), syntax(17, "(lambda [args...] body)") }

(* (f 1), (g 1), (h 1) *)
CallSites == { L2(S("f"), Num(1)), L2(S("g"), Num(1)), L2(S("h"), Num(1)) }

Raise ==
    \E ex \in Factories :
        /\ exc' = [ex |-> ex, recv |-> ex, sites |-> << >>, printed |-> << >>]
        /\ UNCHANGED <<scopes, struct_count, out, last, panicked, hist, overflow_checks,
                       pm, qop, ids>>

Unwind ==
    \E site \in CallSites :
        /\ Len(exc.ex.stack) < MaxTrace
        /\ exc' = [ex |-> extend(exc.ex, site), recv |-> exc.ex,
                   sites |-> Append(exc.sites, site), printed |-> << >>]
        /\ UNCHANGED <<scopes, struct_count, out, last, panicked, hist, overflow_checks,
                       pm, qop, ids>>

PrintTrace ==
    /\ exc' = [exc EXCEPT !.printed = print_stack_trace(exc.ex)]
    /\ UNCHANGED <<scopes, struct_count, out, last, panicked, hist, overflow_checks,
                   pm, qop, ids>>

NextException == Raise \/ Unwind \/ PrintTrace

(* errors made by the factories, extended call site by call site, printed *)
SpecException == Init /\ [][NextException]_vars

(* the matcher of syntax rules, on its own *)
SpecPattern == Init /\ [][NextPattern]_vars

NextForms == DefineSym \/ IfF \/ CondClauses \/ QuasiF \/ EmptyList \/ LetSeq

(* define, if, cond, quasiquote, the empty list and let *)
SpecForms == Init /\ [][NextForms]_vars

----------------------------------------------------------------------------
(* Properties *)

(* the Context in which the last top-level form was evaluated *)
PrevCtx == [scopes |-> last.prev, struct_count |-> struct_count, out |-> << >>]

Printed(s) == \E i \in 1..Len(out) : out[i] = s

(* C1: after cond returns by any exit path, the scope-stack depth equals   *)
(* the depth before cond was called.                                       *)
CondPopsScope ==
    (last.form \in CondForms /\ ~panicked) => Len(scopes) = Len(last.prev)

(* C2: a lambda whose body references x, bound when the lambda was         *)
(* created, returns at every later call the value x had at creation time,  *)
(* also after x was rebound with define.                                   *)
CaptureIsSnapshot ==
    (last.form = CallF /\ hist.x_at_def.some) => last.res = hist.x_at_def.v

CaptureIsSnapshotWitness ==
    /\ last.form = CallF
    /\ hist.x_at_def = Some(Num(1))
    /\ Get(Ctx, "x") = Some(Num(2))
    /\ last.res = Num(1)

(* calls of a lambda of n parameters with m arguments, m # n *)
MismatchCalls ==
    { [form |-> L3(Lam(<<S("a")>>, Say("body")), Num(1), Num(2)), n |-> 1, m |-> 2],
      [form |-> Cons(<<Lam(<<S("a")>>, Say("body"))>>), n |-> 1, m |-> 0],
      [form |-> L3(Lam(<<S("a")>>, Say("body")), S("undef"), Num(2)), n |-> 1, m |-> 2],
      [form |-> L3(Lam(<<S("a")>>, Say("body")), L3(S("define"), S("x"), Num(1)), Num(2)),
       n |-> 1, m |-> 2] }

(* C3 as stated: a lambda of N parameters called with M # N arguments      *)
(* always returns Error(Arity(N, M)) and leaves the Context as it was      *)
(* after the arguments were evaluated.                                     *)
ArityMismatchAlwaysArity ==
    \A k \in MismatchCalls :
        last.form = k.form => last.res = Error(arity(k.n, k.m))

(* C3 as amended: when every argument evaluates to a non-Error value the   *)
(* call returns Error(Arity(N, M)), pushes no scope, binds nothing and     *)
(* does not evaluate the body: scopes and struct counter are those left by *)
(* the evaluation of the arguments.  When an argument evaluates to an      *)
(* Error the call returns that Error.                                      *)
ArityMismatchAfterArgs ==
    \A k \in MismatchCalls :
        last.form = k.form =>
            LET a == EvalArgs(Tail(k.form.v), PrevCtx, MaxDepth)
            IN  IF a.err THEN last.res = a.res
                ELSE /\ last.res = Error(arity(k.n, k.m))
                     /\ scopes = a.c.scopes
                     /\ struct_count = a.c.struct_count
                     /\ ~Printed("body")

ArityMismatchWitness ==
    /\ last.form = L3(Lam(<<S("a")>>, Say("body")), L3(S("define"), S("x"), Num(1)), Num(2))
    /\ last.res = Error(arity(1, 2))
    /\ Get(PrevCtx, "x") # Some(Num(1))
    /\ Get(Ctx, "x") = Some(Num(1))

(* calls in which the second argument evaluates to an Error, with the      *)
(* output written before it *)
ShortCircuitCalls ==
    { [form |-> L3(Lam(<<S("a")>>, Say("body")), S("undef"), Num(2)), out |-> << >>],
      [form |-> L4(Lam(<<S("a"), S("b"), S("c")>>, Say("body")), Say("a"), S("undef"), Say("b")),
       out |-> <<"a">>],
      [form |-> L4(S("display"), Say("a"), S("undef"), Say("b")), out |-> <<"a">>] }

(* calls in which every argument evaluates to a value *)
OrderedCalls ==
    { [form |-> L3(Lam(<<S("a"), S("b")>>, Say("body")), Say("a"), Say("b")),
       out |-> <<"a", "b", "body">>],
      [form |-> L3(S("display"), Say("a"), Say("b")), out |-> <<"a", "b", "()", "()">>] }

(* C4: the arguments of an Intrinsic or Lambda call are evaluated left to  *)
(* right; once one evaluates to an Error no later argument is evaluated,   *)
(* the callee is not invoked and the call returns that Error.              *)
ArgsShortCircuit ==
    /\ \A k \in ShortCircuitCalls :
          last.form = k.form => last.res = Error(undefined("undef")) /\ out = k.out
    /\ \A k \in OrderedCalls : last.form = k.form => out = k.out

ArgsShortCircuitWitness ==
    /\ last.form = L4(S("display"), Say("a"), S("undef"), Say("b"))
    /\ last.res = Error(undefined("undef"))
    /\ out = <<"a">>

(* forms that rebind x in an inner let or lambda-call scope *)
ShadowForms ==
    { LetX(S("x")), LetX(S("undef")),
      LetX(L2(S("cond"), L2(S("undef"), Num(1)))),
      LetX(L2(S("format"), Str("#{undef}"))),
      L2(Lam(<<S("x")>>, S("x")), Num(2)),
      L2(Lam(<<S("x")>>, L2(S("cond"), L2(S("undef"), Num(1)))), Num(2)) }

(* C5: a reference to x inside the inner scope yields the inner value, and *)
(* once the inner construct has returned, with a value or an Error, a      *)
(* lookup of x yields the outer value unchanged.                           *)
InnerScopeRestored ==
    /\ last.form \in {LetX(S("x")), L2(Lam(<<S("x")>>, S("x")), Num(2))} => last.res = Num(2)
    /\ (last.form \in ShadowForms /\ Get(PrevCtx, "x").some /\ ~panicked)
            => Get(Ctx, "x") = Get(PrevCtx, "x")

(* C6: is-point? returns true exactly for the instances of the struct type *)
(* whose type id the predicate was generated for: here p was built by the  *)
(* constructor of the type with id hist.p_id.                              *)
StructPredicateExact ==
    (/\ last.form = L2(S("is-point?"), S("p"))
     /\ hist.p_id.some
     /\ Get(PrevCtx, "p").some
     /\ Get(PrevCtx, "is-point?").some
     /\ ~panicked)
        => last.res = Bool(hist.p_id.v = Get(PrevCtx, "is-point?").v.id)

(* C7: eval is total, no evaluation of a well-formed expression panics. *)
EvalNeverPanics == ~panicked

(* C8: let pops the scope it pushed on every outcome: afterwards the scope *)
(* stack is as deep as before and no binding of the let remains visible.   *)
LetPopsScope ==
    (last.form \in LetForms /\ ~panicked) => scopes = last.prev

(* C9: the scope format pushes for an interpolated sub-expression is       *)
(* popped before format returns, also when the sub-expression is an Error. *)
FormatPopsScope ==
    (last.form \in FormatForms /\ ~panicked) => Len(scopes) = Len(last.prev)

(* guarded expressions that evaluate to an Error, with the error's code *)
TryCases ==
    { [form |-> Try(S("undef"), Handler), code |-> 1],
      [form |-> Try(Cons(<<Lam(<<S("a")>>, S("a"))>>), Handler), code |-> 4],
      [form |-> Try(L2(S("format"), Num(5)), Handler), code |-> 9],
      [form |-> Try(L2(S("cond"), Num(5)), Handler), code |-> 20],
      [form |-> Try(L3(S("define"), S("if"), Num(1)), Handler), code |-> 28] }

(* C10: when the guarded expression of try evaluates to an Error the       *)
(* handler is called exactly once with exactly one argument, the struct    *)
(* `error` of the error code, the description string and the stack-trace   *)
(* list, and the result of try is the handler's result.                    *)
TryCallsHandler ==
    /\ \A k \in TryCases :
          last.form = k.form =>
              /\ last.res.t = "struct"
              /\ last.res.name = "error"
              /\ Len(last.res.data) = 3
              /\ last.res.data[1] = Num(k.code)
              /\ last.res.data[2].t = "str"
              /\ last.res.data[3] = Cons(<< >>)
    /\ last.form = Try(S("undef"), Lam(<<S("e")>>, Say("h")))
          => last.res = nil /\ out = <<"h">>
    /\ last.form = Try(S("undef"), S("display"))
          => /\ last.res = nil
             /\ out = <<"(make-error 1 \"undefined symbol: " \o Backtick \o "undef"
                            \o Backtick \o "\" ())">>
    /\ last.form = Try(S("undef"), Lam(<< >>, Say("h")))
          => last.res = Error(arity(0, 1)) /\ ~Printed("h")

TryCallsHandlerWitness ==
    /\ last.form = Try(S("undef"), Handler)
    /\ last.res = Struct("error", <<Num(1),
                     Str("undefined symbol: " \o Backtick \o "undef" \o Backtick),
                     Cons(<< >>)>>)

(* C11: try evaluates the handler expression before the guarded            *)
(* expression; when the handler's value is not callable the result is a    *)
(* custom Error and the guarded expression is never evaluated; when the    *)
(* guarded expression evaluates to a non-Error value that value is the     *)
(* result and the handler is never called.                                 *)
TryHandlerFirst ==
    /\ last.form = Try(Say("e"), L3(S("begin"), Say("h"), Handler))
          => last.res = nil /\ out = <<"h", "e">>
    /\ last.form = Try(Say("e"), Num(5))
          => /\ last.res = Error(custom(2, "not a callable value: " \o Backtick \o "5"
                                            \o Backtick))
             /\ out = << >>
    /\ last.form = Try(Say("e"), S("undef"))
          => /\ last.res.t = "error"
             /\ last.res.ex.data.k = "Custom"
             /\ out = << >>
    /\ last.form = Try(Num(1), Lam(<<S("e")>>, Say("h")))
          => last.res = Num(1) /\ out = << >>

TryHandlerFirstWitness ==
    /\ last.form = Try(Say("e"), L3(S("begin"), Say("h"), Handler))
    /\ out = <<"h", "e">>
    /\ last.res = nil

(* C12: if evaluates its condition first and then at most one branch: the  *)
(* then-branch when the condition is true, the else-branch when it is      *)
(* false, no branch when the condition is an Error (the result) or not a   *)
(* Bool (a signature Error); the branch not selected is never evaluated.   *)
IfOneBranch ==
    /\ last.form \in IfForms => ~(Printed("t") /\ Printed("e"))
    /\ last.form = IfForm(Bool(TRUE)) => last.res = nil /\ out = <<"t">>
    /\ last.form = IfForm(Bool(FALSE)) => last.res = nil /\ out = <<"e">>
    /\ last.form = IfForm(SayThen("c", Bool(TRUE))) => out = <<"c", "t">>
    /\ last.form = IfForm(SayThen("c", Bool(FALSE))) => out = <<"c", "e">>
    /\ last.form = IfForm(S("undef"))
          => last.res = Error(undefined("undef")) /\ out = << >>
    /\ last.form = IfForm(Num(5))
          => /\ last.res = Error(signature("bool, any, any", "num, cons, cons"))
             /\ out = << >>
    /\ last.form = IfForm(L3(S("eq?"), S("x"), Num(1)))
          => out = (IF Get(PrevCtx, "x") = None THEN << >>
                    ELSE IF Get(PrevCtx, "x") = Some(Num(1)) THEN <<"t">> ELSE <<"e">>)

IfOneBranchWitness ==
    /\ last.form = IfForm(SayThen("c", Bool(FALSE)))
    /\ out = <<"c", "e">>
    /\ last.res = nil

(* C13: a call of if with a number of arguments other than 3 returns an    *)
(* arity Error and evaluates no branch.                                    *)
IfExactlyThree ==
    (/\ last.form.t = "cons"
     /\ last.form \in IfForms
     /\ Len(last.form.v) # 4)
        => /\ last.res.t = "error"
           /\ last.res.ex.data.k = "Arity"
           /\ ~Printed("t")
           /\ ~Printed("e")

QuasiquoteRebuilds ==
    /\ last.form = Quasi(S("x")) => last.res = S("x")
    /\ last.form = Quasi(Num(1)) => last.res = Num(1)
    /\ last.form = Quasi(nil) => last.res = nil
    /\ last.form = Quasi(Cons(<<Num(1), Unq(L3(S("+"), Num(1), Num(2))), S("x")>>))
          => last.res = Cons(<<Num(1), Num(3), S("x")>>)
    /\ last.form = Quasi(Unq(S("x")))
          => last.res = (IF Get(PrevCtx, "x").some THEN Get(PrevCtx, "x").v
                         ELSE Error(undefined("x")))
    /\ last.form = Quasi(L2(Unq(Say("a")), L2(S("x"), Unq(Say("b")))))
          => last.res = L2(nil, L2(S("x"), nil)) /\ out = <<"a", "b">>
    /\ last.form = Quasi(L3(Unquote, Say("a"), Num(1)))
          => last.res = L3(Unquote, Say("a"), Num(1)) /\ out = << >>
    /\ last.form = Quasi(Cons(<<Unquote>>)) => last.res = Cons(<<Unquote>>)
    /\ last.form = Quasi(L2(Say("a"), Unq(S("undef"))))
          => last.res = L2(Say("a"), Error(undefined("undef"))) /\ out = << >>
    /\ last.form \in {Unq(S("x")), Unq(Say("a"))}
          => /\ last.res.t = "error"
             /\ last.res.ex.data.k = "Syntax"
             /\ out = << >>
    /\ last.form \in QuasiForms => scopes = last.prev

QuasiquoteRebuildsWitness ==
    /\ last.form = Quasi(L2(Unq(Say("a")), L2(S("x"), Unq(Say("b")))))
    /\ last.res = L2(nil, L2(S("x"), nil))
    /\ out = <<"a", "b">>

(* C16: evaluating the empty list returns the empty list itself, not an    *)
(* Error, and leaves the Context unchanged.                                *)
EmptyListSelfEvaluates ==
    last.form \in {nil, L2(S("begin"), nil)} => last.res = nil /\ scopes = last.prev

(* the scopes before the last form, with ident bound to value in the       *)
(* innermost one                                                           *)
PrevWith(ident, value) ==
    [last.prev EXCEPT ![Len(last.prev)].bindings = MapInsert(@, ident, value)]

(* C17: (define symbol value) returns the Error of value and binds nothing *)
(* when value evaluates to an Error; returns a custom Error and leaves the *)
(* Context unchanged when symbol is define, cond, lambda, if or let;       *)
(* otherwise binds symbol in the innermost scope only, the bindings of     *)
(* every outer scope staying as they were.                                 *)
DefineBindsInnermost ==
    /\ \A n \in {1, 2} :
          last.form = L3(S("define"), S("x"), Num(n))
              => last.res = nil /\ scopes = PrevWith("x", Num(n))
    /\ last.form = L3(S("define"), S("y"), S("x"))
          => IF Get(PrevCtx, "x").some
             THEN last.res = nil /\ scopes = PrevWith("y", Get(PrevCtx, "x").v)
             ELSE last.res = Error(undefined("x")) /\ scopes = last.prev
    /\ last.form = L3(S("define"), S("x"), S("undef"))
          => last.res = Error(undefined("undef")) /\ scopes = last.prev
    /\ \A r \in {"define", "cond", "lambda", "if", "let"} :
          (last.form.t = "cons" /\ Len(last.form.v) = 3
                /\ last.form.v[1] = S("define") /\ last.form.v[2] = S(r))
              => /\ last.res = Error(custom(28, "reserved identifier: " \o r))
                 /\ scopes = last.prev
                 /\ out = << >>
    /\ \A n \in {"x", "z"} :
          last.form = L3(S("let"), Cons(<<L2(S(n), Num(5))>>),
                         L3(S("begin"), L3(S("define"), S("x"), Num(3)), S("x")))
              => last.res = Num(3) /\ scopes = last.prev

DefineBindsInnermostWitness ==
    /\ last.form = L3(S("let"), Cons(<<L2(S("z"), Num(5))>>),
                      L3(S("begin"), L3(S("define"), S("x"), Num(3)), S("x")))
    /\ last.res = Num(3)
    /\ Get(PrevCtx, "x") = Some(Num(1))
    /\ Get(Ctx, "x") = Some(Num(1))

(* (let ([n1 v1] [n2 v2]) body) *)
Let2(n1, v1, n2, v2, body) == L3(S("let"), Cons(<<L2(S(n1), v1), L2(S(n2), v2)>>), body)

(* C18: let evaluates its binding values in order inside the new scope, so *)
(* a later binding's value sees the names bound by earlier bindings of the *)
(* same let; a binding whose value evaluates to an Error is skipped (its   *)
(* name is not inserted), the remaining bindings are still processed and   *)
(* the body is still evaluated.                                            *)
LetSequential ==
    /\ last.form \in LetSeqForms => scopes = last.prev
    /\ last.form = Let2("a", Num(1), "b", S("a"), S("b")) => last.res = Num(1)
    /\ last.form = Let2("a", Num(1), "b", L3(S("+"), S("a"), Num(1)), S("b"))
          => last.res = Num(2)
    /\ last.form = Let2("b", S("a"), "a", Num(1), S("b"))
          => last.res = Error(undefined("b"))
    /\ last.form = Let2("a", S("undef"), "b", Num(2), S("b")) => last.res = Num(2)
    /\ last.form = Let2("a", S("undef"), "b", Num(2), S("a"))
          => last.res = Error(undefined("a"))
    /\ last.form = L3(S("let"), Cons(<<L2(S("x"), S("undef"))>>), S("x"))
          => last.res = (IF Get(PrevCtx, "x").some THEN Get(PrevCtx, "x").v
                         ELSE Error(undefined("x")))
    /\ last.form = L3(S("let"), Cons(<<L2(S("a"), Say("1")), L2(S("b"), S("undef")),
                                       L2(S("c"), Say("3"))>>), Say("body"))
          => last.res = nil /\ out = <<"1", "3", "body">>

LetSequentialWitness ==
    /\ last.form = Let2("a", S("undef"), "b", Num(2), S("b"))
    /\ last.res = Num(2)
    /\ scopes = last.prev

(* C19: a pattern symbol that is a literal keyword matches only the        *)
(* identical symbol at the corresponding input position and creates no     *)
(* binding, anything else at that position giving a match-failure Error; a *)
(* pattern symbol that is not a literal keyword is bound to the expression *)
(* at the corresponding input position.                                    *)
KeywordMatchesOnlyItself ==
    /\ (pm.pattern = S("kw") /\ Contains(pm.syntax, "kw"))
          => IF pm.input = S("kw")
             THEN pm.result.ok /\ DOMAIN pm.result.matches = {}
             ELSE ~pm.result.ok
    /\ (pm.pattern = L2(S("kw"), S("a")) /\ pm.syntax = <<"kw">>
            /\ pm.input.t = "cons" /\ Len(pm.input.v) = 2)
          => IF pm.input.v[1] = S("kw")
             THEN /\ pm.result.ok
                  /\ DOMAIN pm.result.matches = {"a"}
                  /\ pm.result.matches["a"] = pm.input.v[2]
             ELSE ~pm.result.ok
    /\ (pm.pattern = S("a") /\ ~Contains(pm.syntax, "a"))
          => /\ pm.result.ok
             /\ DOMAIN pm.result.matches = {"a"}
             /\ pm.result.matches["a"] = pm.input

(* C20: the accessor point-x returns, for an instance of point, the value  *)
(* passed to the constructor at that field's position; applied to a        *)
(* non-struct value or to an instance of another struct type it returns a  *)
(* custom Error.                                                           *)
AccessorChecksType ==
    /\ (/\ last.form = L2(S("point-x"), S("p"))
         /\ Get(PrevCtx, "point-x").some
         /\ Get(PrevCtx, "p").some)
          => last.res = Num(1)
    /\ (/\ last.form \in {L2(S("point-x"), Num(5)),
                          L2(S("point-x"), L2(S("make-line"), Num(7)))}
         /\ Get(PrevCtx, "point-x").some
         /\ Get(PrevCtx, "make-line").some)
          => /\ last.res.t = "error"
             /\ last.res.ex.data.k = "Custom"

(* the last form is a call (op a b) of an arithmetic built-in *)
IsBinaryArith ==
    /\ last.form.t = "cons"
    /\ Len(last.form.v) = 3
    /\ last.form.v[1].t = "sym"
    /\ last.form.v[1].v \in ArithOps

(* C21: for + - * /, when every operand is a number or a quaternion and at *)
(* least one is a quaternion, the operands are promoted by (n,0,0,0) and   *)
(* the result is the quaternion result; when some operand, in any          *)
(* position, is neither, the result is an Error and never a number.        *)
ArithPromotesOrFails ==
    IsBinaryArith =>
        LET op == last.form.v[1].v
            a == last.form.v[2]
            b == last.form.v[3]
        IN  /\ ({a.t, b.t} \subseteq {"num", "quat"} /\ "quat" \in {a.t, b.t})
                  => /\ last.res.t = "quat"
                     /\ op = "+" => last.res.q = QuatAdd(Promote(a), Promote(b))
                     /\ op = "*" => last.res.q = QuatMul(Promote(a), Promote(b))
            /\ ~({a.t, b.t} \subseteq {"num", "quat"}) => last.res.t = "error"

(* C24: quaternion multiplication satisfies i*i = j*j = k*k = i*j*k = -1,  *)
(* and addition is component-wise: (5,0,0,0) + (3,0,0,0) = (8,0,0,0).      *)
HamiltonIdentities ==
    /\ (qop.p = qop.q /\ qop.p \in {QI, QJ, QK}) => qop.prod = Quat(-1, 0, 0, 0)
    /\ (qop.p = QI /\ qop.q = QJ /\ qop.r = QK) => qop.prod3 = Quat(-1, 0, 0, 0)
    /\ (qop.p = Quat(5, 0, 0, 0) /\ qop.q = Quat(3, 0, 0, 0)) => qop.sum = Quat(8, 0, 0, 0)
    /\ qop.sum = Quat(qop.p.a + qop.q.a, qop.p.b + qop.q.b,
                      qop.p.c + qop.q.c, qop.p.d + qop.q.d)

HamiltonIdentitiesWitness ==
    /\ qop.p = QI
    /\ qop.q = QJ
    /\ qop.r = QK
    /\ qop.prod = QK
    /\ qop.prod3 = Quat(-1, 0, 0, 0)

(* the symbols that occur in the expression e *)
RECURSIVE SymbolsIn(_)

SymbolsIn(e) ==
    CASE e.t = "sym" -> {e.v}
      [] e.t = "cons" -> UNION { SymbolsIn(e.v[i]) : i \in 1..Len(e.v) }
      [] OTHER -> {}

(* the capture of a lambda with these parameters and body, created in c *)
ExactCapture(params, body, c) ==
    [key \in { n \in SymbolsIn(body) : Get(c, n).some /\ n \notin params }
        |-> Get(c, key).v]

IsSelfLambda(v, name) ==
    v.t = "callable" /\ v.k = "Lambda" /\ v.params = << >> /\ v.body = S(name)

(* C22: after (define (f) f), whose body references f, a later call of f   *)
(* resolves the inner reference to the lambda bound by that define, also   *)
(* when f was bound to another value before the define and when the       *)
(* lambda is called after the scope of its define has been popped.        *)
SelfReferenceResolves ==
    /\ (IsForm(last.form, CallF) /\ Get(PrevCtx, "f").some
            /\ IsSelfLambda(Get(PrevCtx, "f").v, "f"))
          => last.res = Get(PrevCtx, "f").v
    /\ (IsForm(last.form, CallSelfInside) \/ IsForm(last.form, CallSelfOutside))
          => IsSelfLambda(last.res, "g")

(* C25: the capture of a lambda created by lambda or by the function form *)
(* of define maps exactly the symbols of its body that are bound at       *)
(* creation and are not parameters to their values at creation.           *)
CaptureIsExact ==
    /\ IsForm(last.form, LamParam)
          => last.res.capture = ExactCapture({"x"}, S("x"), PrevCtx)
    /\ IsForm(last.form, LamFree)
          => last.res.capture = ExactCapture({"y"}, S("x"), PrevCtx)
    /\ IsForm(last.form, LamConst)
          => last.res.capture = ExactCapture({}, Num(3), PrevCtx)
    /\ (IsForm(last.form, DefParam) /\ last.res = nil)
          => Get(Ctx, "h").v.capture = ExactCapture({"x"}, S("x"), PrevCtx)
    /\ (IsForm(last.form, DefSelf) /\ last.res = nil)
          => Get(Ctx, "f").v.capture = ExactCapture({}, S("f"), PrevCtx)

(* C23: when the evaluation of an unquoted sub-expression of a quasiquote *)
(* yields an Error, the quasiquote returns that Error; it never returns a *)
(* list that has an Error among its elements.                             *)
QuasiquotePropagatesError ==
    /\ last.form = Quasi(L2(Say("a"), Unq(S("undef"))))
          => last.res = Error(undefined("undef"))
    /\ (last.form \in QuasiForms /\ last.res.t = "cons")
          => \A i \in 1..Len(last.res.v) : last.res.v[i].t # "error"

(* C26: every successful define_struct increases the counter of the       *)
(* Context by exactly one and returns the new value; over any sequence of  *)
(* define_struct, ascend_scope and descend_scope the returned ids are      *)
(* strictly increasing and none is returned twice, also after the scope    *)
(* that registered a type has been popped.                                 *)
StructIdsIncrease ==
    /\ Len(ids) = struct_count
    /\ \A i \in 1..Len(ids) : ids[i] = i
    /\ \A i, j \in 1..Len(ids) : i < j => ids[i] < ids[j]
    /\ \A name \in StructNames :
          GetStructId(Ctx, name).some => GetStructId(Ctx, name).v \in 1..struct_count

StructIdsIncreaseWitness ==
    /\ ids = <<1, 2>>
    /\ Len(scopes) = 1
    /\ \A name \in StructNames : GetStructId(Ctx, name) # Some(1)
    /\ \E name \in StructNames : GetStructId(Ctx, name) = Some(2)

Reverse(l) == [i \in 1..Len(l) |-> l[Len(l) - i + 1]]

(* C27: an error made by a factory has an empty trace; extend(expr)       *)
(* returns a new error with the payload and the error code of the         *)
(* receiver and leaves the receiver as it was. When extend is applied     *)
(* once per call site from the innermost to the outermost, the stored     *)
(* trace has the outermost call site first and the innermost last; the    *)
(* trace print_stack_trace writes is the stored one reversed and reads    *)
(* innermost-first.                                                       *)
TraceOutermostFirst ==
    /\ \A ex \in Factories : ex.stack = << >>
    /\ exc.ex.data = exc.recv.data
    /\ error_code(exc.ex) = error_code(exc.recv)
    /\ exc.recv.stack = Reverse(SubSeq(exc.sites, 1, Len(exc.recv.stack)))
    /\ exc.ex.stack = Reverse(exc.sites)
    /\ exc.sites # << >>
          => /\ exc.ex.stack[1] = exc.sites[Len(exc.sites)]
             /\ exc.ex.stack[Len(exc.ex.stack)] = exc.sites[1]
    /\ exc.printed # << >> => exc.printed = exc.sites

TraceOutermostFirstWitness ==
    /\ exc.sites = <<L2(S("f"), Num(1)), L2(S("g"), Num(1)), L2(S("h"), Num(1))>>
    /\ exc.ex.stack = <<L2(S("h"), Num(1)), L2(S("g"), Num(1)), L2(S("f"), Num(1))>>
    /\ exc.printed = exc.sites
    /\ exc.ex.data = arity(1, 2).data

(* C27 as stated: the stored trace reads innermost-first, its first        *)
(* element the innermost call site and its last element the outermost.     *)
TraceInnermostFirst ==
    exc.sites # << >>
        => /\ exc.ex.stack[1] = exc.sites[1]
           /\ exc.ex.stack[Len(exc.ex.stack)] = exc.sites[Len(exc.sites)]

(* C28: in every state reached from a fresh Context by evaluating          *)
(* expressions the scope stack is non-empty and its bottom scope is the    *)
(* one Context::new created, holding the initial bindings: lambda calls,   *)
(* let, cond and format never pop more scopes than they pushed.            *)
ScopeStackNeverEmpty ==
    /\ Len(scopes) >= 1
    /\ Len(last.prev) >= 1
    /\ Len(scopes) >= Len(last.prev)
    /\ \A k \in DOMAIN InitBindings :
          /\ k \in DOMAIN scopes[1].bindings
          /\ scopes[1].bindings[k] = InitBindings[k]
    /\ \A i \in 1..(Len(last.prev) - 1) : scopes[i] = last.prev[i]

ScopeStackNeverEmptyWitness ==
    /\ last.form = L2(Lam(<<S("x")>>, L2(S("cond"), L2(S("undef"), Num(1)))), Num(2))
    /\ last.res = Error(undefined("undef"))
    /\ Len(last.prev) = 1
    /\ Len(scopes) = 2
    /\ scopes[1] = last.prev[1]

(* C29: when define-struct returns an Error the Context is unchanged: no  *)
(* type id is registered under the name, the struct counter is not        *)
(* advanced, no accessor, predicate or constructor is bound.              *)
DefineStructErrorKeepsContext ==
    [][(/\ \/ IsForm(last'.form, L3(S("define-struct"), S("point"), Num(1)))
           \/ IsForm(last'.form, L2(S("define-struct"), S("point")))
        /\ last'.prev = scopes
        /\ last'.res.t = "error")
          => (scopes' = scopes /\ struct_count' = struct_count)]_vars

(* C30: a struct built by the constructor of (define-struct point [x])    *)
(* carries the type name point and its field values in argument order    *)
(* whatever symbol the constructor is bound to at the call site: after    *)
(* (define mk make-point), (mk 1) is an instance of point.                *)
ConstructorKeepsTypeName ==
    (/\ IsForm(last.form, L2(S("mk"), Num(1)))
     /\ Get(PrevCtx, "mk").some
     /\ Get(PrevCtx, "mk").v = StructMake(1))
        => /\ last.res.t = "struct"
           /\ last.res.name = "point"
           /\ last.res.data = <<Num(1)>>

====
